---------------------------- MODULE Spec2Model ----------------------------
(***************************************************************************)
(* A model of the scheduling and transport subsystem of leojam-studio:     *)
(* the zustand store (useDAWStore, src/src/main.tsx), the AudioEngine      *)
(* singleton (src/unnamed/part_002), the part of Tone.Transport the engine *)
(* drives, and the StepSequencer view's scheduling effect                  *)
(* (src/unnamed/part_003).                                                 *)
(* The module holds several specifications over the same variables: Spec   *)
(* and SpecEdit for the store, SpecCompile, SpecEngine and SpecStep for    *)
(* the engine's schedule builds, SpecInterp for the automation             *)
(* interpolator, SpecLane for the store's automation point actions,        *)
(* SpecHistory, SpecFile and SpecSession for the project's history, files  *)
(* and life cycle, SpecRender for the offline renderer and SpecMidi for    *)
(* the MIDI export (src/unnamed/part_001).                                 *)
(*                                                                         *)
(* Numbers.  Beats are integers.  Seconds and normalised velocities are    *)
(* exact rationals <<numerator, denominator>> in lowest terms.  The tempos *)
(* of Bpms are those for which the double 60 / bpm is exact, so that the   *)
(* rational (60/bpm)*beats is the double the code computes.                *)
(***************************************************************************)
EXTENDS Integers, Sequences, FiniteSets, TLC

VARIABLES
    project,                \* DAWState.project
    transport,              \* DAWState.transport
    view,                   \* DAWState.view.currentView
    stepSequencerPatterns,  \* DAWState.stepSequencerPatterns
    samples,                \* DAWState.samples
    audioEngine,            \* the AudioEngine singleton's fields
    toneTransport,          \* Tone.Transport: state, position, loop
    stepSeqView,            \* the mounted StepSequencer component (or unmounted)
    undoStack,              \* HistoryManager.undoStack
    redoStack,              \* HistoryManager.redoStack
    nextId,                 \* number of uuidv4() values drawn so far
    lastOp                  \* the transport command or edit that ran last, and
                            \* the state of the clock it ran from

vars == <<project, transport, view, stepSequencerPatterns, samples, audioEngine,
          toneTransport, stepSeqView, undoStack, redoStack, nextId, lastOp>>

----------------------------------------------------------------------------
(* Bounds of the model *)

MaxNotes == 2      \* notes of a pattern in the enumerated inputs
MaxHistory == 1    \* history-saving edits in one run
MaxBeat == 1       \* largest beat position of the transport
MaxIds == 2        \* uuidv4() values drawn in one run

(* Program constants *)

maxHistorySize == 50
MidiVelocityScale == 127

NoId == "none"     \* an absent (undefined) id
Bpms == {60, 120}

----------------------------------------------------------------------------
(* Arithmetic *)

RECURSIVE GCD(_, _)
GCD(a, b) == IF b = 0 THEN a ELSE GCD(b, a % b)

Frac(n, d) == LET g == GCD(n, d) IN <<n \div g, d \div g>>

RAdd(a, b) == Frac(a[1] * b[2] + b[1] * a[2], a[2] * b[2])

RMul(a, b) == Frac(a[1] * b[1], a[2] * b[2])

RSub(a, b) == Frac(a[1] * b[2] - b[1] * a[2], a[2] * b[2])

\* a / b for b # 0, with the sign kept in the numerator
RDiv(a, b) ==
    IF b[1] > 0 THEN Frac(a[1] * b[2], a[2] * b[1])
    ELSE Frac(0 - a[1] * b[2], 0 - a[2] * b[1])

\* a <= b and a < b for rationals with positive denominators
RLeq(a, b) == a[1] * b[2] <= b[1] * a[2]

RLess(a, b) == a[1] * b[2] < b[1] * a[2]

\* const beatsToSeconds = (beats) => (60 / bpm) * beats
beatsToSeconds(bpm, beats) == Frac(60 * beats, bpm)

\* midiNote.velocity / 127
normVelocity(velocity) == Frac(velocity, MidiVelocityScale)

----------------------------------------------------------------------------
(* Array helpers *)

\* Array.prototype.findIndex on ids, 1-based; 0 when no element has the id
RECURSIVE FindFrom(_, _, _)
FindFrom(seq, id, i) ==
    IF i > Len(seq) THEN 0
    ELSE IF seq[i].id = id THEN i
    ELSE FindFrom(seq, id, i + 1)

FindIndex(seq, id) == FindFrom(seq, id, 1)

----------------------------------------------------------------------------
(* AudioEngine, src/unnamed/part_002 *)

\* the fields of a freshly constructed engine
NewAudioEngine ==
    [instruments |-> {}, trackChannels |-> {}, audioBuffers |-> {},
     playlistParts |-> <<>>, audioPlayers |-> <<>>,
     automationEventIds |-> <<>>, stepSequencerPart |-> <<>>,
     masterChannel |-> "live"]

clearAutomation(e) == [e EXCEPT !.automationEventIds = <<>>]

\* as clearPlaylist, without the call of clearAutomation
clearPlaylistKeepsAutomation(e) == [e EXCEPT !.playlistParts = <<>>, !.audioPlayers = <<>>]

clearPlaylist(e) ==
    clearAutomation([e EXCEPT !.playlistParts = <<>>, !.audioPlayers = <<>>])

clearStepSequencer(e) == [e EXCEPT !.stepSequencerPart = <<>>]

\* as ClipNoteEvents, with the note times left relative to the pattern
ClipNoteEventsPatternRelative(clip, pattern, bpm) ==
    [i \in 1..Len(pattern.notes) |->
        [time     |-> beatsToSeconds(bpm, pattern.notes[i].startTime),
         note     |-> pattern.notes[i].note,
         duration |-> beatsToSeconds(bpm, pattern.notes[i].duration),
         velocity |-> normVelocity(pattern.notes[i].velocity)]]

\* pattern.notes.forEach(midiNote => events.push({...}))
ClipNoteEvents(clip, pattern, bpm) ==
    [i \in 1..Len(pattern.notes) |->
        [time     |-> beatsToSeconds(bpm, clip.startTime + pattern.notes[i].startTime),
         note     |-> pattern.notes[i].note,
         duration |-> beatsToSeconds(bpm, pattern.notes[i].duration),
         velocity |-> normVelocity(pattern.notes[i].velocity)]]

\* the body of track.clips.forEach in schedulePlaylist
ScheduleClip(e, track, clip, patterns, bpm) ==
    IF clip.audioBufferId # NoId
    THEN IF clip.audioBufferId \in e.audioBuffers /\ track.id \in e.trackChannels
         THEN [e EXCEPT !.audioPlayers = Append(@,
                  [buffer  |-> clip.audioBufferId,
                   channel |-> track.id,
                   start   |-> beatsToSeconds(bpm, clip.startTime)])]
         ELSE e
    ELSE IF clip.patternId # NoId
    THEN LET p == FindIndex(patterns, clip.patternId)
         IN  IF p = 0 \/ track.instrumentId \notin e.instruments
             THEN e
             ELSE LET events == ClipNoteEvents(clip, patterns[p], bpm)
                  IN  IF Len(events) > 0
                      THEN [e EXCEPT !.playlistParts = Append(@,
                               [instrument |-> track.instrumentId,
                                events     |-> events])]
                      ELSE e
    ELSE e

RECURSIVE ScheduleClips(_, _, _, _, _)
ScheduleClips(e, track, i, patterns, bpm) ==
    IF i > Len(track.clips) THEN e
    ELSE ScheduleClips(ScheduleClip(e, track, track.clips[i], patterns, bpm),
                       track, i + 1, patterns, bpm)

\* as ScheduleTrack, giving up the track at its first clip that schedules nothing
ScheduleTrackUntilSkip(e, track, patterns, bpm) ==
    IF track.mute THEN e
    ELSE LET RECURSIVE Upto(_, _)
             Upto(x, i) ==
                 IF i > Len(track.clips) THEN x
                 ELSE LET y == ScheduleClip(x, track, track.clips[i], patterns, bpm)
                      IN  IF y = x THEN x ELSE Upto(y, i + 1)
         IN  Upto(e, 1)

\* the body of tracks.forEach in schedulePlaylist
ScheduleTrack(e, track, patterns, bpm) ==
    IF track.mute THEN e ELSE ScheduleClips(e, track, 1, patterns, bpm)

RECURSIVE ScheduleTracks(_, _, _, _, _)
ScheduleTracks(e, tracks, i, patterns, bpm) ==
    IF i > Len(tracks) THEN e
    ELSE ScheduleTracks(ScheduleTrack(e, tracks[i], patterns, bpm),
                        tracks, i + 1, patterns, bpm)

schedulePlaylist(e, tracks, patterns, bpm) ==
    ScheduleTracks(clearPlaylist(e), tracks, 1, patterns, bpm)

\* as ScheduleLane, without the test of lane.enabled
ScheduleLaneAlsoDisabled(e, lane, bpm) ==
    IF Len(lane.points) = 0 THEN e
    ELSE IF lane.targetTrackId \notin e.trackChannels /\ lane.targetParam # "tempo" THEN e
    ELSE [e EXCEPT !.automationEventIds = @ \o
            [i \in 1..Len(lane.points) |->
                [lane        |-> lane.id,
                 time        |-> beatsToSeconds(bpm, lane.points[i].time),
                 targetParam |-> lane.targetParam,
                 value       |-> lane.points[i].value,
                 channel     |-> IF lane.targetTrackId \in e.trackChannels
                                 THEN lane.targetTrackId ELSE NoId]]]

\* the body of lanes.forEach in scheduleAutomation: one Transport.schedule per point
ScheduleLane(e, lane, bpm) ==
    IF ~lane.enabled \/ Len(lane.points) = 0 THEN e
    ELSE IF lane.targetTrackId \notin e.trackChannels /\ lane.targetParam # "tempo" THEN e
    ELSE [e EXCEPT !.automationEventIds = @ \o
            [i \in 1..Len(lane.points) |->
                [lane        |-> lane.id,
                 time        |-> beatsToSeconds(bpm, lane.points[i].time),
                 targetParam |-> lane.targetParam,
                 value       |-> lane.points[i].value,
                 channel     |-> IF lane.targetTrackId \in e.trackChannels
                                 THEN lane.targetTrackId ELSE NoId]]]

RECURSIVE ScheduleLanes(_, _, _, _)
ScheduleLanes(e, lanes, i, bpm) ==
    IF i > Len(lanes) THEN e
    ELSE ScheduleLanes(ScheduleLane(e, lanes[i], bpm), lanes, i + 1, bpm)

scheduleAutomation(e, lanes, bpm) == ScheduleLanes(clearAutomation(e), lanes, 1, bpm)

\* const stepDuration = 60 / bpm / 4
\* as stepDuration, on an eighth-note grid
stepDurationEighth(bpm) == Frac(60, bpm * 2)

stepDuration(bpm) == Frac(60, bpm * 4)

\* as StepHits, with one hit for a step whatever its roll
StepHitsSingle(step, stepIndex, note, swing, bpm) ==
    IF ~step.active THEN <<>>
    ELSE LET swingOffset == IF stepIndex % 2 = 1
                            THEN RMul(RMul(stepDuration(bpm), Frac(swing, 100)), <<1, 2>>)
                            ELSE <<0, 1>>
         IN  <<[time     |-> RAdd(RMul(<<stepIndex, 1>>, stepDuration(bpm)), swingOffset),
                note     |-> note,
                velocity |-> normVelocity(step.velocity)]>>

\* the hits of one step: rollCount = step.roll || 1 (roll 0 models an absent roll)
StepHits(step, stepIndex, note, swing, bpm) ==
    IF ~step.active THEN <<>>
    ELSE LET swingOffset == IF stepIndex % 2 = 1
                            THEN RMul(RMul(stepDuration(bpm), Frac(swing, 100)), <<1, 2>>)
                            ELSE <<0, 1>>
             baseTime    == RAdd(RMul(<<stepIndex, 1>>, stepDuration(bpm)), swingOffset)
             rollCount   == IF step.roll = 0 THEN 1 ELSE step.roll
             rollDuration == RMul(stepDuration(bpm), <<1, rollCount>>)
         IN  [r \in 1..rollCount |->
                [time     |-> RAdd(baseTime, RMul(<<r - 1, 1>>, rollDuration)),
                 note     |-> note,
                 velocity |-> normVelocity(step.velocity)]]

\* row.steps.forEach((step, stepIndex) => ...), stepIndex 0-based
RECURSIVE RowHits(_, _, _, _)
RowHits(row, i, swing, bpm) ==
    IF i > Len(row.steps) THEN <<>>
    ELSE StepHits(row.steps[i], i - 1, row.note, swing, bpm) \o RowHits(row, i + 1, swing, bpm)

RECURSIVE PatternHits(_, _, _)
PatternHits(pattern, i, bpm) ==
    IF i > Len(pattern.rows) THEN <<>>
    ELSE RowHits(pattern.rows[i], 1, pattern.swing, bpm) \o PatternHits(pattern, i + 1, bpm)

\* stepSequencerPart is <<>> (null) or <<part>>
scheduleStepSequencer(e, pattern, bpm) ==
    LET c == clearStepSequencer(e)
    IN  IF pattern.instrumentId \notin c.instruments THEN c
        ELSE [c EXCEPT !.stepSequencerPart =
                 <<[instrument |-> pattern.instrumentId,
                    events     |-> PatternHits(pattern, 1, bpm),
                    loopEnd    |-> RMul(<<pattern.steps, 1>>, stepDuration(bpm))]>>]

\* createInstrument / createTrackChannel / registerAudioBuffer: the registries
createInstrument(e, instrument) == [e EXCEPT !.instruments = @ \cup {instrument.id}]

createTrackChannel(e, track) == [e EXCEPT !.trackChannels = @ \cup {track.id}]

registerAudioBuffer(e, id) == [e EXCEPT !.audioBuffers = @ \cup {id}]

\* removeInstrument(instrumentId): the instrument is disposed and unregistered
engineRemoveInstrument(e, instrumentId) == [e EXCEPT !.instruments = @ \ {instrumentId}]

\* reset(): every schedule and every registry is emptied
reset(e) ==
    LET c == clearAutomation(clearPlaylist(clearStepSequencer(e)))
    IN  [c EXCEPT !.instruments = {}, !.trackChannels = {}, !.audioBuffers = {}]

\* dispose(): the step part and the playlist are cleared, every registry is
\* emptied and the master channel, limiter, meter and analyser are disposed
dispose(e) ==
    LET c == clearPlaylist(clearStepSequencer(e))
    IN  [c EXCEPT !.instruments = {}, !.trackChannels = {}, !.audioBuffers = {},
                  !.masterChannel = "disposed"]

----------------------------------------------------------------------------
(* Tone.Transport as the engine drives it *)

NewToneTransport ==
    [state |-> "stopped", position |-> 0, loop |-> FALSE, loopStart |-> 0, loopEnd |-> 16]

\* play(): Tone.Transport.start()
enginePlay(t) == [t EXCEPT !.state = "started"]

\* as enginePause, rewinding the clock as well
enginePauseRewinds(t) ==
    [t EXCEPT !.state = IF @ = "started" THEN "paused" ELSE @, !.position = 0]

\* pause(): Tone.Transport.pause(), which acts on a started clock only
enginePause(t) == [t EXCEPT !.state = IF @ = "started" THEN "paused" ELSE @]

\* as engineStop, without the assignment of position
engineStopKeepsPosition(t) == [t EXCEPT !.state = "stopped"]

\* stop(): Tone.Transport.stop(); Tone.Transport.position = 0
engineStop(t) == [t EXCEPT !.state = "stopped", !.position = 0]

\* setPosition(beats): Tone.Transport.position = `0:${beats}:0`
engineSetPosition(t, beats) == [t EXCEPT !.position = beats]

\* setLoop(enabled, start, end)
engineSetLoop(t, enabled, start, end) ==
    [t EXCEPT !.loop = enabled, !.loopStart = start, !.loopEnd = end]

----------------------------------------------------------------------------
(* The store after construction, src/src/main.tsx *)

createDefaultProject ==
    [bpm |-> 120, tracks |-> <<>>, patterns |-> <<>>, instruments |-> <<>>,
     automationLanes |-> <<>>]

createDefaultTransport ==
    [isPlaying |-> FALSE, isRecording |-> FALSE, currentBeat |-> 0,
     loopStart |-> 0, loopEnd |-> 16, loopEnabled |-> FALSE]

\* the value of lastOp once op has run: its name, the clock state and position
\* it ran from and
\* the number of note parts, sample players, automation events and
\* step-sequencer parts the backend held
Ran(op) ==
    [op |-> op, from |-> [state |-> toneTransport.state, position |-> toneTransport.position],
     held |-> <<Len(audioEngine.playlistParts), Len(audioEngine.audioPlayers),
                Len(audioEngine.automationEventIds), Len(audioEngine.stepSequencerPart)>>]

Unmounted == [mounted |-> FALSE, selectedPatternId |-> NoId, deps |-> <<>>]

\* everything but the project and the engine, as construction leaves it
InitRest ==
    /\ transport = createDefaultTransport
    /\ view = "playlist"
    /\ stepSequencerPatterns = <<>>
    /\ samples = <<>>
    /\ toneTransport = NewToneTransport
    /\ stepSeqView = Unmounted
    /\ undoStack = <<>>
    /\ redoStack = <<>>
    /\ nextId = 0
    /\ lastOp = [op |-> "init", from |-> [state |-> "stopped", position |-> 0], held |-> <<0, 0, 0, 0>>]

----------------------------------------------------------------------------
(* SpecCompile: schedulePlaylist as a function of its arguments.  Init      *)
(* draws a project and leaves the engine with instrument i1, the channel   *)
(* of track t1 and the audio buffer b1 registered: instrument i2, the      *)
(* channel of t2, buffer b2 and pattern p2 are dangling references, which  *)
(* the store allows (updateTrack, addClip and undo do not validate ids).   *)

MkNote(i, v) ==
    [id |-> "n" \o ToString(i), note |-> v[1], startTime |-> v[2],
     duration |-> v[3], velocity |-> v[4]]

NoteValues == {<<"C4", 0, 1, 100>>, <<"D4", 1, 2, 64>>, <<"C4", 1, 1, 127>>}

NoteSeqInputs ==
    UNION {{[i \in 1..n |-> MkNote(i, f[i])] : f \in [1..n -> NoteValues]} : n \in 0..MaxNotes}

MkClip(id, patternId, audioBufferId, startTime, duration, offset) ==
    [id |-> id, patternId |-> patternId, audioBufferId |-> audioBufferId,
     startTime |-> startTime, duration |-> duration, offset |-> offset]

ClipSeqInputs ==
    {<<>>,
     <<MkClip("c1", "p1", NoId, 0, 4, 0)>>,
     <<MkClip("c1", "p1", NoId, 0, 1, 1)>>,
     <<MkClip("c1", "p1", NoId, 2, 4, 0)>>,
     <<MkClip("c1", "p0", NoId, 1, 4, 0)>>,
     <<MkClip("c1", "p2", NoId, 0, 4, 0), MkClip("c2", "p1", NoId, 1, 4, 0)>>,
     <<MkClip("c1", NoId, "b1", 1, 4, 0)>>,
     <<MkClip("c1", NoId, "b2", 0, 4, 0), MkClip("c2", NoId, "b1", 1, 4, 0)>>,
     <<MkClip("c1", "p1", NoId, 0, 4, 0), MkClip("c2", "p1", NoId, 1, 1, 1)>>,
     <<MkClip("c1", NoId, "b1", 0, 4, 0), MkClip("c2", "p0", NoId, 0, 4, 0)>>}

MkTrack(id, mute, solo, instrumentId, clips) ==
    [id |-> id, type |-> "midi", mute |-> mute, solo |-> solo,
     instrumentId |-> instrumentId, clips |-> clips]

TrackInputs(id, instrumentIds) ==
    {MkTrack(id, m, s, i, c) :
        m \in BOOLEAN, s \in BOOLEAN, i \in instrumentIds, c \in ClipSeqInputs}

MkPattern(id, instrumentId, notes) ==
    [id |-> id, instrumentId |-> instrumentId, notes |-> notes]

CompileProjects ==
    {[bpm |-> b,
      tracks |-> <<t1, t2>>,
      patterns |-> <<MkPattern("p0", "i1", <<MkNote(0, <<"E4", 0, 1, 100>>)>>),
                     MkPattern("p1", "i1", ns)>>,
      instruments |-> <<[id |-> "i1"]>>,
      automationLanes |-> <<>>] :
        b \in Bpms,
        t1 \in TrackInputs("t1", {"i1", NoId}),
        t2 \in TrackInputs("t2", {"i1", "i2"}),
        ns \in NoteSeqInputs}

CompileEngine ==
    [NewAudioEngine EXCEPT !.instruments = {"i1"}, !.trackChannels = {"t1"},
                           !.audioBuffers = {"b1"}]

InitCompile ==
    /\ project \in CompileProjects
    /\ audioEngine = CompileEngine
    /\ InitRest

\* audioEngine.schedulePlaylist(project.tracks, project.patterns, project.bpm)
CompilePlaylist ==
    /\ audioEngine' = schedulePlaylist(audioEngine, project.tracks, project.patterns,
                                       project.bpm)
    /\ lastOp' = Ran("schedulePlaylist")
    /\ UNCHANGED <<project, transport, view, stepSequencerPatterns, samples,
                   toneTransport, stepSeqView, undoStack, redoStack, nextId>>

NextCompile == CompilePlaylist

SpecCompile == InitCompile /\ [][NextCompile]_vars

----------------------------------------------------------------------------
(* What the backend holds *)

RECURSIVE PartEventsFrom(_, _)
PartEventsFrom(parts, i) ==
    IF i > Len(parts) THEN <<>>
    ELSE [k \in 1..Len(parts[i].events) |->
            [instrument |-> parts[i].instrument,
             time       |-> parts[i].events[k].time,
             note       |-> parts[i].events[k].note,
             duration   |-> parts[i].events[k].duration,
             velocity   |-> parts[i].events[k].velocity]]
         \o PartEventsFrom(parts, i + 1)

\* every note event of every playlist part, with the instrument it sounds on
AllNoteEvents(e) == PartEventsFrom(e.playlistParts, 1)

\* the number of times x occurs in seq
Count(seq, x) == Cardinality({i \in DOMAIN seq : seq[i] = x})

----------------------------------------------------------------------------
(* Claims on schedulePlaylist, under SpecCompile *)

\* <<t, c, n>>: note n of the pattern of clip c of track t, for the unmuted
\* tracks with a registered instrument and their clips on existing patterns
NoteOrigins ==
    UNION {UNION {{<<t, c, n>> :
                     n \in 1..Len(project.patterns[
                              FindIndex(project.patterns,
                                        project.tracks[t].clips[c].patternId)].notes)} :
                  c \in {k \in 1..Len(project.tracks[t].clips) :
                            /\ project.tracks[t].clips[k].audioBufferId = NoId
                            /\ \E p \in 1..Len(project.patterns) :
                                 project.patterns[p].id = project.tracks[t].clips[k].patternId}} :
           t \in {k \in 1..Len(project.tracks) :
                     /\ ~project.tracks[k].mute
                     /\ project.tracks[k].instrumentId \in audioEngine.instruments}}

\* ev is the event the claim describes for origin o: the rationals are compared
\* by cross-multiplication with (60/bpm)*beats and velocity/127
IsEventOf(ev, o) ==
    LET track == project.tracks[o[1]]
        clip  == track.clips[o[2]]
        note  == project.patterns[FindIndex(project.patterns, clip.patternId)].notes[o[3]]
    IN  /\ ev.instrument = track.instrumentId
        /\ ev.note = note.note
        /\ ev.time[1] * project.bpm = 60 * (clip.startTime + note.startTime) * ev.time[2]
        /\ ev.duration[1] * project.bpm = 60 * note.duration * ev.duration[2]
        /\ ev.velocity[1] * 127 = note.velocity * ev.velocity[2]

\* <<t, c>>: audio clip c of the unmuted track t, for the tracks with a channel
\* and the clips with a registered buffer
PlayerOrigins ==
    UNION {{<<t, c>> : c \in {k \in 1..Len(project.tracks[t].clips) :
                                 /\ project.tracks[t].clips[k].audioBufferId # NoId
                                 /\ project.tracks[t].clips[k].audioBufferId
                                        \in audioEngine.audioBuffers}} :
           t \in {k \in 1..Len(project.tracks) :
                     /\ ~project.tracks[k].mute
                     /\ project.tracks[k].id \in audioEngine.trackChannels}}

IsPlayerOf(pl, o) ==
    LET track == project.tracks[o[1]]
        clip  == track.clips[o[2]]
    IN  /\ pl.buffer = clip.audioBufferId
        /\ pl.channel = track.id
        /\ pl.start[1] * project.bpm = 60 * clip.startTime * pl.start[2]

\* the backend's note events are one per origin, and nothing else
NoteEventsExact ==
    LET A == AllNoteEvents(audioEngine)
    IN  /\ Len(A) = Cardinality(NoteOrigins)
        /\ \A i \in DOMAIN A :
             Count(A, A[i]) = Cardinality({o \in NoteOrigins : IsEventOf(A[i], o)})

\* the backend's sample players are one per audio clip, and nothing else
PlayersExact ==
    LET P == audioEngine.audioPlayers
    IN  /\ Len(P) = Cardinality(PlayerOrigins)
        /\ \A i \in DOMAIN P :
             Count(P, P[i]) = Cardinality({o \in PlayerOrigins : IsPlayerOf(P[i], o)})

\* C9: schedulePlaylist emits exactly one note event per note of every clip on
\* an existing pattern of every unmuted track with a registered instrument, at
\* (60/bpm)*(clip.startTime + note.startTime) seconds, lasting
\* (60/bpm)*note.duration seconds, with velocity note.velocity/127, on the
\* track's instrument, and no other note event; the clip's duration and offset
\* play no part.
C9_PlaylistNoteEvents == lastOp.op = "schedulePlaylist" => NoteEventsExact

\* C9 witness: a build with a muted track that has a clip on a pattern with
\* notes, an unmuted track with two clips, one of them trimmed (duration 1,
\* offset 1), and several events, two of them equal
C9_Witness ==
    /\ lastOp.op = "schedulePlaylist"
    /\ project.tracks[1].mute /\ Len(project.tracks[1].clips) > 0
    /\ project.tracks[1].clips[1].patternId = "p1"
    /\ ~project.tracks[2].mute /\ Len(project.tracks[2].clips) = 2
    /\ project.tracks[2].clips[2].offset = 1
    /\ project.tracks[2].instrumentId = "i1"
    /\ Len(project.patterns[2].notes) = 2
    /\ Len(AllNoteEvents(audioEngine)) = 4
    /\ \E i, j \in DOMAIN AllNoteEvents(audioEngine) :
         i # j /\ AllNoteEvents(audioEngine)[i] = AllNoteEvents(audioEngine)[j]

\* the tracks as the solo policy reads them: with a solo track present, every
\* non-solo track counts as muted
SoloPolicyTracks(tracks) ==
    IF \E i \in DOMAIN tracks : tracks[i].solo
    THEN [i \in DOMAIN tracks |-> [tracks[i] EXCEPT !.mute = @ \/ ~tracks[i].solo]]
    ELSE tracks

\* C10: if any track has solo = true, the build emits events only for solo
\* tracks: what the backend holds is what the build gives with every non-solo
\* track muted.
C10_SoloOnly ==
    lastOp.op = "schedulePlaylist" =>
        LET ideal == schedulePlaylist(audioEngine, SoloPolicyTracks(project.tracks),
                                      project.patterns, project.bpm)
        IN  /\ audioEngine.playlistParts = ideal.playlistParts
            /\ audioEngine.audioPlayers = ideal.audioPlayers

\* the clip refers to a pattern that does not exist, sits on a track whose
\* instrument is not registered, or refers to a buffer that is not registered
Dangling(track, clip) ==
    IF clip.audioBufferId # NoId
    THEN clip.audioBufferId \notin audioEngine.audioBuffers
    ELSE /\ clip.patternId # NoId
         /\ \/ \A p \in DOMAIN project.patterns : project.patterns[p].id # clip.patternId
            \/ track.instrumentId \notin audioEngine.instruments

\* the tracks with their dangling clips taken out
WithoutDangling(tracks) ==
    [t \in DOMAIN tracks |->
        [tracks[t] EXCEPT !.clips = SelectSeq(@, LAMBDA c : ~Dangling(tracks[t], c))]]

\* <<t, c>>: clip c of the unmuted track t is not dangling and has something
\* to play: a pattern with a note, or a buffer on a track with a channel
SoundingClips ==
    {o \in UNION {{<<t, c>> : c \in DOMAIN project.tracks[t].clips} :
                    t \in DOMAIN project.tracks} :
        LET track == project.tracks[o[1]]
            clip  == track.clips[o[2]]
        IN  /\ ~track.mute
            /\ ~Dangling(track, clip)
            /\ IF clip.audioBufferId # NoId
               THEN track.id \in audioEngine.trackChannels
               ELSE /\ clip.patternId # NoId
                    /\ \E p \in DOMAIN project.patterns :
                         /\ project.patterns[p].id = clip.patternId
                         /\ Len(project.patterns[p].notes) > 0}

\* C11: a build skips a clip on a missing pattern, on a track whose instrument
\* is not registered, or on a buffer that is not registered: the backend holds
\* what the build of the project without those clips gives, which is one note
\* part or sample player for every other clip that has something to play.
C11_DanglingClipsSkipped ==
    lastOp.op = "schedulePlaylist" =>
        LET clean == schedulePlaylist(CompileEngine, WithoutDangling(project.tracks),
                                      project.patterns, project.bpm)
        IN  /\ audioEngine.playlistParts = clean.playlistParts
            /\ audioEngine.audioPlayers = clean.audioPlayers
            /\ Len(audioEngine.playlistParts) + Len(audioEngine.audioPlayers)
                   = Cardinality(SoundingClips)

\* C11 witness: a build in which track t1, whose instrument is not registered,
\* starts with a clip on the unregistered buffer b2 and has its second clip
\* played, and track t2 starts with a clip on the missing pattern p2 and has
\* the two notes of its second clip scheduled
C11_Witness ==
    /\ lastOp.op = "schedulePlaylist"
    /\ ~project.tracks[1].mute /\ project.tracks[1].instrumentId = NoId
    /\ Len(project.tracks[1].clips) = 2
    /\ project.tracks[1].clips[1].audioBufferId = "b2"
    /\ ~project.tracks[2].mute /\ project.tracks[2].instrumentId = "i1"
    /\ Len(project.tracks[2].clips) = 2
    /\ project.tracks[2].clips[1].patternId = "p2"
    /\ Len(audioEngine.audioPlayers) = 1
    /\ audioEngine.audioPlayers[1].buffer = "b1"
    /\ Len(audioEngine.playlistParts) = 1
    /\ Len(audioEngine.playlistParts[1].events) = 2

\* C12: the note events of a build are emitted by time ascending, and when the
\* release of one note (its event's time + duration) and the attack of another
\* note of the same instrument and pitch fall at the same time, the event that
\* carries the release is emitted before the event that carries the attack.
C12_EventsTimeOrdered ==
    lastOp.op = "schedulePlaylist" =>
        LET A == AllNoteEvents(audioEngine)
        IN  \A i, j \in DOMAIN A :
                i < j =>
                    /\ RLeq(A[i].time, A[j].time)
                    /\ ~(/\ A[i].instrument = A[j].instrument /\ A[i].note = A[j].note
                         /\ RAdd(A[j].time, A[j].duration) = A[i].time)

----------------------------------------------------------------------------
(* The store's actions, src/src/main.tsx, and the StepSequencer view,       *)
(* src/unnamed/part_003.  A store action runs to completion; the view's     *)
(* effects run after the render the action caused and before the next       *)
(* action.                                                                  *)

MkLane(id, targetTrackId, targetParam, enabled, points) ==
    [id |-> id, targetTrackId |-> targetTrackId, targetParam |-> targetParam,
     enabled |-> enabled, points |-> points]

MkPoint(time, value) == [time |-> time, value |-> value, curve |-> "linear"]

MkStep(active, roll) == [active |-> active, velocity |-> 100, roll |-> roll]

\* a saved project: an instrument track with a clip, an empty audio track, an
\* enabled volume lane, an enabled lane on a track that does not exist, a tempo
\* lane, a disabled lane, and a step pattern
DataA ==
    [project |->
        [bpm |-> 120,
         tracks |-> <<MkTrack("t1", FALSE, FALSE, "i1", <<MkClip("c1", "p1", NoId, 0, 4, 0)>>),
                      [MkTrack("t2", FALSE, FALSE, NoId, <<>>) EXCEPT !.type = "audio"]>>,
         patterns |-> <<MkPattern("p1", "i1", <<MkNote(1, <<"C4", 0, 1, 100>>)>>)>>,
         instruments |-> <<[id |-> "i1"]>>,
         automationLanes |->
            <<MkLane("l1", "t1", "volume", TRUE, <<MkPoint(0, <<1, 2>>), MkPoint(1, <<1, 1>>)>>),
              MkLane("l2", "t9", "pan", TRUE, <<MkPoint(0, <<0, 1>>)>>),
              MkLane("l3", NoId, "tempo", TRUE, <<MkPoint(1, <<1, 1>>)>>),
              MkLane("l4", "t1", "pan", FALSE, <<MkPoint(0, <<1, 1>>)>>)>>],
     stepSequencerPatterns |->
        <<[id |-> "s1", instrumentId |-> "i1", steps |-> 2, swing |-> 50,
           rows |-> <<[note |-> "C4", steps |-> <<MkStep(TRUE, 0), MkStep(TRUE, 2)>>]>>]>>]

\* a saved project: a muted instrument track, no audio track, no lanes, no
\* step pattern
DataB ==
    [project |->
        [bpm |-> 60,
         tracks |-> <<MkTrack("t1", TRUE, FALSE, "i1", <<MkClip("c1", "p1", NoId, 1, 4, 0)>>)>>,
         patterns |-> <<MkPattern("p1", "i1", <<MkNote(1, <<"C4", 0, 1, 100>>),
                                                  MkNote(2, <<"D4", 1, 2, 64>>)>>)>>,
         instruments |-> <<[id |-> "i1"]>>,
         automationLanes |-> <<>>],
     stepSequencerPatterns |-> <<>>]

ProjectInputs == {DataA, DataB}

RECURSIVE CreateInstruments(_, _, _)
CreateInstruments(e, instruments, i) ==
    IF i > Len(instruments) THEN e
    ELSE CreateInstruments(createInstrument(e, instruments[i]), instruments, i + 1)

RECURSIVE CreateTrackChannels(_, _, _)
CreateTrackChannels(e, tracks, i) ==
    IF i > Len(tracks) THEN e
    ELSE CreateTrackChannels(createTrackChannel(e, tracks[i]), tracks, i + 1)

\* getPosition(): Tone reports bars:beats:sixteenths; bars * 4 + beats + sixteenths / 4
getPosition(t) ==
    LET bars == t.position \div 4
        beats == t.position % 4
    IN  bars * 4 + beats

getTransportState(t) ==
    [isPlaying |-> t.state = "started", isRecording |-> FALSE,
     currentBeat |-> getPosition(t), loopStart |-> 0, loopEnd |-> 16,
     loopEnabled |-> t.loop]

\* JSON.stringify of an object: a property whose value is undefined is left out.
\* optional names the properties the types declare optional; the others always
\* carry a value
StringifyObject(obj, optional) ==
    [k \in {f \in DOMAIN obj : ~(f \in optional /\ obj[f] = NoId)} |-> obj[k]]

\* the object JSON.parse gives back, as the program reads it: a property that
\* is not there reads undefined
ParseObject(obj, optional) ==
    [k \in DOMAIN obj \cup optional |-> IF k \in DOMAIN obj THEN obj[k] ELSE NoId]

TrackOptional == {"instrumentId"}

ClipOptional == {"patternId", "audioBufferId"}

LaneOptional == {"targetTrackId"}

StringifyTrack(track) ==
    StringifyObject([track EXCEPT !.clips =
                        [i \in DOMAIN @ |-> StringifyObject(@[i], ClipOptional)]],
                    TrackOptional)

ParseTrack(track) ==
    [ParseObject(track, TrackOptional) EXCEPT !.clips =
        [i \in DOMAIN @ |-> ParseObject(@[i], ClipOptional)]]

StringifyProject(p) ==
    [p EXCEPT !.tracks = [i \in DOMAIN @ |-> StringifyTrack(@[i])],
              !.automationLanes = [i \in DOMAIN @ |-> StringifyObject(@[i], LaneOptional)]]

ParseProject(p) ==
    [p EXCEPT !.tracks = [i \in DOMAIN @ |-> ParseTrack(@[i])],
              !.automationLanes = [i \in DOMAIN @ |-> ParseObject(@[i], LaneOptional)]]

\* JSON.parse(JSON.stringify(state)) of a history state
JsonClone(state) ==
    [state EXCEPT !.project = ParseProject(StringifyProject(@))]

\* HistoryManager.saveState
saveState(stack, state) ==
    LET pushed == Append(stack, JsonClone(state))
    IN  IF Len(pushed) > maxHistorySize THEN Tail(pushed) ELSE pushed

\* uuidv4(): the k-th value drawn
uuidv4(k) == "u" \o ToString(k)

\* Object.assign(target, updates)
Assign(target, updates) ==
    [f \in DOMAIN target |-> IF f \in DOMAIN updates THEN updates[f] ELSE target[f]]

\* the StepSequencer component after a render of the current store state:
\* the first pattern is selected when none is, and the scheduling effect's
\* dependencies are [selectedPattern, transport.isPlaying, project.bpm]
RenderedView ==
    IF view # "stepsequencer" THEN Unmounted
    ELSE LET sel == IF Len(stepSequencerPatterns) > 0 /\ stepSeqView.selectedPatternId = NoId
                    THEN stepSequencerPatterns[1].id
                    ELSE stepSeqView.selectedPatternId
             i == FindIndex(stepSequencerPatterns, sel)
         IN  [mounted |-> TRUE, selectedPatternId |-> sel,
              deps |-> <<[selectedPattern |-> IF i = 0 THEN <<>>
                                              ELSE <<stepSequencerPatterns[i]>>,
                          isPlaying |-> transport.isPlaying,
                          bpm |-> project.bpm]>>]

EffectsPending == stepSeqView # RenderedView

\* the scheduling effect and its cleanup, run when its dependencies changed,
\* on mount and on unmount
RunEffects ==
    /\ EffectsPending
    /\ stepSeqView' = RenderedView
    /\ audioEngine' =
         IF ~RenderedView.mounted THEN clearStepSequencer(audioEngine)
         ELSE LET d == RenderedView.deps[1]
              IN  IF d.selectedPattern # <<>> /\ d.isPlaying
                  THEN scheduleStepSequencer(clearStepSequencer(audioEngine),
                                             d.selectedPattern[1], d.bpm)
                  ELSE clearStepSequencer(clearStepSequencer(audioEngine))
    /\ UNCHANGED <<project, transport, view, stepSequencerPatterns, samples,
                   toneTransport, undoStack, redoStack, nextId, lastOp>>

\* the engine after loadProject(JSON.stringify(data)): reset(), then an
\* instrument per saved instrument and a channel per saved track
loadProjectEngine(e, data) ==
    CreateTrackChannels(CreateInstruments(reset(e), data.project.instruments, 1),
                        data.project.tracks, 1)

\* the store and the engine fresh from construction
Init ==
    /\ project = createDefaultProject
    /\ audioEngine = NewAudioEngine
    /\ InitRest

\* loadProject(JSON.stringify(data)); the new stepSequencerPatterns array makes
\* a mounted StepSequencer run its effects again
LoadProject(data) ==
    /\ ~EffectsPending
    /\ audioEngine' = loadProjectEngine(audioEngine, data)
    /\ project' = data.project
    /\ stepSequencerPatterns' = data.stepSequencerPatterns
    /\ stepSeqView' = [stepSeqView EXCEPT !.deps = <<>>]
    /\ lastOp' = Ran("loadProject")
    /\ UNCHANGED <<transport, view, samples, toneTransport, undoStack, redoStack, nextId>>

\* as play, with the automation build before the playlist build
playAutomationFirst ==
    /\ ~EffectsPending
    /\ audioEngine' = schedulePlaylist(
                          scheduleAutomation(audioEngine, project.automationLanes,
                                             project.bpm),
                          project.tracks, project.patterns, project.bpm)
    /\ toneTransport' = enginePlay(toneTransport)
    /\ transport' = [transport EXCEPT !.isPlaying = TRUE]
    /\ lastOp' = Ran("play")
    /\ UNCHANGED <<project, view, stepSequencerPatterns, samples, stepSeqView,
                   undoStack, redoStack, nextId>>

play ==
    /\ ~EffectsPending
    /\ audioEngine' = scheduleAutomation(
                          schedulePlaylist(audioEngine, project.tracks, project.patterns,
                                           project.bpm),
                          project.automationLanes, project.bpm)
    /\ toneTransport' = enginePlay(toneTransport)
    /\ transport' = [transport EXCEPT !.isPlaying = TRUE]
    /\ lastOp' = Ran("play")
    /\ UNCHANGED <<project, view, stepSequencerPatterns, samples, stepSeqView,
                   undoStack, redoStack, nextId>>

pause ==
    /\ ~EffectsPending
    /\ toneTransport' = enginePause(toneTransport)
    /\ transport' = [transport EXCEPT !.isPlaying = FALSE]
    /\ lastOp' = Ran("pause")
    /\ UNCHANGED <<project, view, stepSequencerPatterns, samples, audioEngine,
                   stepSeqView, undoStack, redoStack, nextId>>

stop ==
    /\ ~EffectsPending
    /\ toneTransport' = engineStop(toneTransport)
    /\ audioEngine' = clearPlaylist(audioEngine)
    /\ transport' = [transport EXCEPT !.isPlaying = FALSE, !.currentBeat = 0]
    /\ lastOp' = Ran("stop")
    /\ UNCHANGED <<project, view, stepSequencerPatterns, samples, stepSeqView,
                   undoStack, redoStack, nextId>>

setPosition(beats) ==
    /\ ~EffectsPending
    /\ toneTransport' = engineSetPosition(toneTransport, beats)
    /\ transport' = [transport EXCEPT !.currentBeat = beats]
    /\ lastOp' = Ran("setPosition")
    /\ UNCHANGED <<project, view, stepSequencerPatterns, samples, audioEngine,
                   stepSeqView, undoStack, redoStack, nextId>>

setLoop(enabled, start, end) ==
    /\ ~EffectsPending
    /\ toneTransport' = engineSetLoop(toneTransport, enabled, start, end)
    /\ transport' = [transport EXCEPT !.loopEnabled = enabled, !.loopStart = start,
                                      !.loopEnd = end]
    /\ UNCHANGED <<project, view, stepSequencerPatterns, samples, audioEngine,
                   stepSeqView, undoStack, redoStack, nextId, lastOp>>

updateTransport ==
    /\ ~EffectsPending
    /\ transport' = [transport EXCEPT
                        !.currentBeat = getTransportState(toneTransport).currentBeat,
                        !.isPlaying = getTransportState(toneTransport).isPlaying]
    /\ UNCHANGED <<project, view, stepSequencerPatterns, samples, audioEngine,
                   toneTransport, stepSeqView, undoStack, redoStack, nextId, lastOp>>

\* the started clock of Tone.Transport advances by a beat; with the loop on it
\* wraps from loopEnd to loopStart
Tick ==
    /\ ~EffectsPending
    /\ toneTransport.state = "started"
    /\ toneTransport.position < MaxBeat
    /\ toneTransport' = [toneTransport EXCEPT !.position =
                            IF toneTransport.loop /\ @ + 1 >= toneTransport.loopEnd
                            THEN toneTransport.loopStart ELSE @ + 1]
    /\ UNCHANGED <<project, transport, view, stepSequencerPatterns, samples,
                   audioEngine, stepSeqView, undoStack, redoStack, nextId, lastOp>>

setCurrentView(v) ==
    /\ ~EffectsPending
    /\ view' = v
    /\ UNCHANGED <<project, transport, stepSequencerPatterns, samples, audioEngine,
                   toneTransport, stepSeqView, undoStack, redoStack, nextId, lastOp>>

\* saveHistory() at the head of an edit; the number of edits of a run is bounded
SaveHistory ==
    /\ Len(undoStack) < MaxHistory
    /\ undoStack' = saveState(undoStack, [project |-> project,
                                          stepSequencerPatterns |-> stepSequencerPatterns])
    /\ redoStack' = <<>>

addNote(patternId, note) ==
    LET i == FindIndex(project.patterns, patternId)
    IN  /\ ~EffectsPending
        /\ nextId < MaxIds
        /\ SaveHistory
        /\ IF i = 0
           THEN UNCHANGED <<project, nextId>>
           ELSE /\ project' = [project EXCEPT !.patterns[i].notes =
                                  Append(@, [id |-> uuidv4(nextId + 1), note |-> note.note,
                                             startTime |-> note.startTime,
                                             duration |-> note.duration,
                                             velocity |-> note.velocity])]
                /\ nextId' = nextId + 1
        /\ lastOp' = Ran("addNote")
        /\ UNCHANGED <<transport, view, stepSequencerPatterns, samples, audioEngine,
                       toneTransport, stepSeqView>>

removeNote(patternId, noteId) ==
    LET i == FindIndex(project.patterns, patternId)
    IN  /\ ~EffectsPending
        /\ SaveHistory
        /\ project' = IF i = 0 THEN project
                      ELSE [project EXCEPT !.patterns[i].notes =
                               SelectSeq(@, LAMBDA n : n.id # noteId)]
        /\ lastOp' = Ran("removeNote")
        /\ UNCHANGED <<transport, view, stepSequencerPatterns, samples, audioEngine,
                       toneTransport, stepSeqView, nextId>>

updateNote(patternId, noteId, updates) ==
    LET i == FindIndex(project.patterns, patternId)
        j == IF i = 0 THEN 0 ELSE FindIndex(project.patterns[i].notes, noteId)
    IN  /\ ~EffectsPending
        /\ SaveHistory
        /\ project' = IF j = 0 THEN project
                      ELSE [project EXCEPT !.patterns[i].notes[j] = Assign(@, updates)]
        /\ lastOp' = Ran("updateNote")
        /\ UNCHANGED <<transport, view, stepSequencerPatterns, samples, audioEngine,
                       toneTransport, stepSeqView, nextId>>

addClip(trackId, clip) ==
    LET i == FindIndex(project.tracks, trackId)
    IN  /\ ~EffectsPending
        /\ nextId < MaxIds
        /\ SaveHistory
        /\ IF i = 0
           THEN UNCHANGED <<project, nextId>>
           ELSE /\ project' = [project EXCEPT !.tracks[i].clips =
                                  Append(@, MkClip(uuidv4(nextId + 1), clip.patternId,
                                                   clip.audioBufferId, clip.startTime,
                                                   clip.duration, clip.offset))]
                /\ nextId' = nextId + 1
        /\ lastOp' = Ran("addClip")
        /\ UNCHANGED <<transport, view, stepSequencerPatterns, samples, audioEngine,
                       toneTransport, stepSeqView>>

removeClip(trackId, clipId) ==
    LET i == FindIndex(project.tracks, trackId)
    IN  /\ ~EffectsPending
        /\ SaveHistory
        /\ project' = IF i = 0 THEN project
                      ELSE [project EXCEPT !.tracks[i].clips =
                               SelectSeq(@, LAMBDA c : c.id # clipId)]
        /\ lastOp' = Ran("removeClip")
        /\ UNCHANGED <<transport, view, stepSequencerPatterns, samples, audioEngine,
                       toneTransport, stepSeqView, nextId>>

updateClip(trackId, clipId, updates) ==
    LET i == FindIndex(project.tracks, trackId)
        j == IF i = 0 THEN 0 ELSE FindIndex(project.tracks[i].clips, clipId)
    IN  /\ ~EffectsPending
        /\ SaveHistory
        /\ project' = IF j = 0 THEN project
                      ELSE [project EXCEPT !.tracks[i].clips[j] = Assign(@, updates)]
        /\ lastOp' = Ran("updateClip")
        /\ UNCHANGED <<transport, view, stepSequencerPatterns, samples, audioEngine,
                       toneTransport, stepSeqView, nextId>>

removeInstrument(instrumentId) ==
    /\ ~EffectsPending
    /\ SaveHistory
    /\ audioEngine' = engineRemoveInstrument(audioEngine, instrumentId)
    /\ project' =
          [project EXCEPT
              !.instruments = SelectSeq(@, LAMBDA i : i.id # instrumentId),
              !.patterns    = SelectSeq(@, LAMBDA p : p.instrumentId # instrumentId),
              !.tracks      = [t \in DOMAIN @ |->
                                  IF @[t].instrumentId = instrumentId
                                  THEN [@[t] EXCEPT !.instrumentId = NoId]
                                  ELSE @[t]]]
    /\ lastOp' = Ran("removeInstrument")
    /\ UNCHANGED <<transport, view, stepSequencerPatterns, samples, toneTransport,
                   stepSeqView, nextId>>

\* loadSample(file), once the file is decoded; duration is the buffer's, in seconds
loadSample(duration) ==
    /\ ~EffectsPending
    /\ nextId < MaxIds
    /\ audioEngine' = registerAudioBuffer(audioEngine, uuidv4(nextId + 1))
    /\ samples' = Append(samples, [id |-> uuidv4(nextId + 1), duration |-> duration])
    /\ nextId' = nextId + 1
    /\ UNCHANGED <<project, transport, view, stepSequencerPatterns, toneTransport,
                   stepSeqView, undoStack, redoStack, lastOp>>

\* addAudioClipFromSample(sampleId) as the browser calls it: no trackId, startTime 0
addAudioClipFromSample(sampleId) ==
    LET s == FindIndex(samples, sampleId)
        a == FindIndex([k \in DOMAIN project.tracks |->
                          [id |-> project.tracks[k].type]], "audio")
        newTrack == [MkTrack(uuidv4(nextId + 1), FALSE, FALSE, NoId, <<>>)
                        EXCEPT !.type = "audio"]
        tracks == IF a = 0 THEN Append(project.tracks, newTrack) ELSE project.tracks
        t == IF a = 0 THEN Len(tracks) ELSE a
        drawn == IF a = 0 THEN 2 ELSE 1
        durationInBeats == (samples[s].duration * project.bpm) \div 60
    IN  /\ ~EffectsPending
        /\ s # 0
        /\ nextId + drawn <= MaxIds
        /\ audioEngine' = IF a = 0 THEN createTrackChannel(audioEngine, newTrack)
                          ELSE audioEngine
        /\ project' = [project EXCEPT !.tracks =
                          [tracks EXCEPT ![t].clips =
                              Append(@, MkClip(uuidv4(nextId + drawn), NoId, sampleId, 0,
                                               durationInBeats, 0))]]
        /\ nextId' = nextId + drawn
        /\ UNCHANGED <<transport, view, stepSequencerPatterns, samples, toneTransport,
                       stepSeqView, undoStack, redoStack, lastOp>>

NoteInputs == {[note |-> "E4", startTime |-> 2, duration |-> 1, velocity |-> 90],
               [note |-> "E4", startTime |-> 2, duration |-> 0, velocity |-> 200]}

NoteUpdates == {[startTime |-> 3], [velocity |-> 0 - 1]}

ClipInputs == {[patternId |-> "p1", audioBufferId |-> NoId, startTime |-> 2,
                duration |-> 4, offset |-> 0]}

ClipUpdates == {[startTime |-> 3]}

Views == {"playlist", "stepsequencer"}

EditNote ==
    \E i \in DOMAIN project.patterns :
        \/ \E note \in NoteInputs : addNote(project.patterns[i].id, note)
        \/ \E j \in DOMAIN project.patterns[i].notes :
              \/ removeNote(project.patterns[i].id, project.patterns[i].notes[j].id)
              \/ \E u \in NoteUpdates :
                    updateNote(project.patterns[i].id, project.patterns[i].notes[j].id, u)

EditClip ==
    \E i \in DOMAIN project.tracks :
        \/ \E clip \in ClipInputs : addClip(project.tracks[i].id, clip)
        \/ \E j \in DOMAIN project.tracks[i].clips :
              \/ removeClip(project.tracks[i].id, project.tracks[i].clips[j].id)
              \/ \E u \in ClipUpdates :
                    updateClip(project.tracks[i].id, project.tracks[i].clips[j].id, u)

EditInstrument ==
    \E i \in DOMAIN project.instruments : removeInstrument(project.instruments[i].id)

\* the transport, project loading, samples and the view
Next ==
    \/ \E data \in ProjectInputs : LoadProject(data)
    \/ play
    \/ pause
    \/ stop
    \/ \E beats \in 0..MaxBeat : setPosition(beats)
    \/ \E enabled \in BOOLEAN : setLoop(enabled, transport.loopStart, transport.loopEnd)
    \/ updateTransport
    \/ Tick
    \/ \E v \in Views : setCurrentView(v)
    \/ loadSample(1)
    \/ \E i \in DOMAIN samples : addAudioClipFromSample(samples[i].id)
    \/ RunEffects

Spec == Init /\ [][Next]_vars

\* the same with the pattern and clip edits
NextEdit ==
    \/ Next
    \/ EditNote
    \/ EditClip
    \/ EditInstrument

SpecEdit == Init /\ [][NextEdit]_vars

----------------------------------------------------------------------------
(* The transport's states, and what the backend holds, under Spec *)

Playing == transport.isPlaying /\ toneTransport.state = "started"

Paused == ~transport.isPlaying /\ toneTransport.state = "paused"

Stopped == ~transport.isPlaying /\ toneTransport.state = "stopped"

\* the lanes scheduleAutomation is asked to schedule, by index
EnabledLanes == {l \in DOMAIN project.automationLanes : project.automationLanes[l].enabled}

\* the enabled lanes with a point that target the tempo or a track with a channel
EligibleLanes ==
    {l \in EnabledLanes :
        /\ Len(project.automationLanes[l].points) > 0
        /\ \/ project.automationLanes[l].targetParam = "tempo"
           \/ project.automationLanes[l].targetTrackId \in audioEngine.trackChannels}

\* the backend holds one automation event per point of every lane of L, in
\* the order of the points, at (60/bpm)*point.time seconds with the point's value
LaneEventsExact(L) ==
    \A l \in L :
        LET lane == project.automationLanes[l]
            evs  == SelectSeq(audioEngine.automationEventIds, LAMBDA ev : ev.lane = lane.id)
        IN  /\ Len(evs) = Len(lane.points)
            /\ \A i \in DOMAIN evs :
                 /\ evs[i].time[1] * project.bpm = 60 * lane.points[i].time * evs[i].time[2]
                 /\ evs[i].value = lane.points[i].value
                 /\ evs[i].targetParam = lane.targetParam

\* every automation event the backend holds belongs to a lane of L
OnlyLaneEvents(L) ==
    \A i \in DOMAIN audioEngine.automationEventIds :
        \E l \in L : audioEngine.automationEventIds[i].lane = project.automationLanes[l].id

\* the backend holds the playlist events of the current project
HoldsPlaylistOfProject == NoteEventsExact /\ PlayersExact

PositionUnchanged ==
    /\ toneTransport'.position = toneTransport.position
    /\ transport'.currentBeat = transport.currentBeat

----------------------------------------------------------------------------
(* Claims on the transport, under Spec *)

\* C2, as stated: play() from Stopped leaves isPlaying true and the clock
\* started, leaves the position alone, and leaves the backend with the
\* playlist events of the current project and one automation event per point
\* of every enabled lane.
C2_PlayFromStopped ==
    [][(play /\ Stopped) =>
          (/\ Playing' /\ PositionUnchanged
           /\ HoldsPlaylistOfProject'
           /\ LaneEventsExact(EnabledLanes)')]_vars

\* C2, amended: as stated, with one automation event per point of every
\* eligible lane (enabled, with a point, on the tempo or on a track that has a
\* channel) and no other automation event.
C2_PlayFromStoppedEligible ==
    [][(play /\ Stopped) =>
          (/\ Playing' /\ PositionUnchanged
           /\ HoldsPlaylistOfProject'
           /\ LaneEventsExact(EligibleLanes)'
           /\ OnlyLaneEvents(EligibleLanes)')]_vars

\* C2 witness: play() ran from Stopped at beat 1 on a project with an enabled
\* lane on a missing track; the backend holds note events and the three events
\* of the two eligible lanes
C2_Witness ==
    /\ lastOp.op = "play" /\ lastOp.from = [state |-> "stopped", position |-> 1]
    /\ Playing
    /\ \E l \in EnabledLanes : l \notin EligibleLanes
    /\ Len(audioEngine.automationEventIds) = 3
    /\ Len(AllNoteEvents(audioEngine)) > 0
    /\ HoldsPlaylistOfProject

\* C3: after stop() from Playing or Paused, once the view's effects have run,
\* the backend holds no note part, no sample player, no automation event and
\* no step-sequencer part.
C3_StopClearsSchedule ==
    (lastOp.op = "stop" /\ lastOp.from.state \in {"started", "paused"} /\ ~EffectsPending) =>
        /\ audioEngine.playlistParts = <<>>
        /\ audioEngine.audioPlayers = <<>>
        /\ audioEngine.automationEventIds = <<>>
        /\ audioEngine.stepSequencerPart = <<>>

\* C3 witness: stop() ran from Playing while the backend held a note part, a
\* sample player, automation events and the step-sequencer part
C3_Witness ==
    /\ lastOp.op = "stop" /\ lastOp.from.state = "started"
    /\ lastOp.held[1] > 0 /\ lastOp.held[2] > 0 /\ lastOp.held[3] > 0 /\ lastOp.held[4] > 0
    /\ ~EffectsPending
    /\ stepSeqView.mounted

\* C4: after stop(), from any state, isPlaying is false, the clock is stopped,
\* and the store's currentBeat and the backend position are 0.
C4_StopResets ==
    lastOp.op = "stop" =>
        /\ ~transport.isPlaying
        /\ toneTransport.state = "stopped"
        /\ transport.currentBeat = 0
        /\ getPosition(toneTransport) = 0

\* C4 witness: stop() ran from Paused at beat 1
C4_Witness ==
    /\ lastOp.op = "stop" /\ lastOp.from = [state |-> "paused", position |-> 1]
    /\ Stopped

\* C5: play() from Paused restarts the clock at the frozen position and leaves
\* the scheduled playlist and automation events as they were.
C5_ResumeKeepsSchedule ==
    [][(play /\ Paused) =>
          (/\ Playing' /\ PositionUnchanged
           /\ audioEngine'.playlistParts = audioEngine.playlistParts
           /\ audioEngine'.audioPlayers = audioEngine.audioPlayers
           /\ audioEngine'.automationEventIds = audioEngine.automationEventIds)]_vars

\* C6: setPosition(beats) sets the cursor to beats in every state, and while
\* Playing it leaves the backend with the events built from the current project.
C6_SetPositionRebuilds ==
    [][\A beats \in 0..MaxBeat :
          setPosition(beats) =>
             (/\ transport'.currentBeat = beats
              /\ getPosition(toneTransport') = beats
              /\ Playing =>
                    (/\ HoldsPlaylistOfProject'
                     /\ LaneEventsExact(EligibleLanes)'
                     /\ OnlyLaneEvents(EligibleLanes)'))]_vars

\* C7: while Playing, after addNote, removeNote, updateNote, addClip,
\* removeClip or updateClip the backend holds the playlist events of the
\* current project.
C7_EditRebuilds ==
    [][((EditNote \/ EditClip) /\ Playing) => HoldsPlaylistOfProject']_vars

\* C19: after any sequence of addNote and updateNote calls, with any numbers
\* as arguments, every note of every pattern has a velocity in [0, 127] and a
\* duration above 0.
C19_NotesInRange ==
    \A p \in DOMAIN project.patterns :
        \A n \in DOMAIN project.patterns[p].notes :
            /\ project.patterns[p].notes[n].velocity >= 0
            /\ project.patterns[p].notes[n].velocity <= MidiVelocityScale
            /\ project.patterns[p].notes[n].duration > 0

\* C20: removeInstrument(i) removes the instrument and nothing else: every
\* pattern bound to i stays in the project with all of its notes.
C20_RemoveInstrumentKeepsPatterns ==
    [][\A i \in DOMAIN project.instruments :
          removeInstrument(project.instruments[i].id) =>
             (/\ \A p \in DOMAIN project.patterns :
                   project.patterns[p].instrumentId = project.instruments[i].id =>
                      \E q \in DOMAIN project'.patterns :
                         project'.patterns[q] = project.patterns[p]
              /\ project'.patterns = project.patterns
              /\ \A j \in DOMAIN project'.instruments :
                   project'.instruments[j].id # project.instruments[i].id)]_vars

\* what the pause() call itself does from Playing: the clock is paused and the
\* playing flag cleared, and position, engine schedules, loop settings and
\* project stay as they were
PauseCallFrame ==
    (pause /\ Playing) =>
        (/\ toneTransport' = [toneTransport EXCEPT !.state = "paused"]
         /\ transport' = [transport EXCEPT !.isPlaying = FALSE]
         /\ PositionUnchanged
         /\ UNCHANGED <<audioEngine, project, stepSequencerPatterns>>)

\* the view's effects that run after a pause()
EffectsAfterPause == RunEffects /\ lastOp.op = "pause"

----------------------------------------------------------------------------
(* SpecEngine: the three schedule builds of the AudioEngine called in any    *)
(* order with any of the enumerated arguments, on an engine with the         *)
(* instrument and channels of DataA and the audio buffer b1 registered.      *)
(* Here lastOp records the name of the latest call and the arguments of the  *)
(* latest call of each kind (<<>> when there was none).                      *)

PlaylistInputs ==
    {[tracks |-> d.project.tracks, patterns |-> d.project.patterns] : d \in ProjectInputs}
    \cup
    {[tracks |-> <<MkTrack("t1", FALSE, FALSE, "i1", <<MkClip("c1", "p1", NoId, 1, 4, 0)>>),
                   [MkTrack("t2", FALSE, FALSE, NoId, <<MkClip("c2", NoId, "b1", 0, 2, 0)>>)
                       EXCEPT !.type = "audio"]>>,
      patterns |-> DataB.project.patterns]}

LaneInputs ==
    {DataA.project.automationLanes,
     <<MkLane("l5", "t2", "mute", TRUE, <<MkPoint(2, <<1, 1>>)>>)>>,
     <<MkLane("l6", "t1", "pan", TRUE, <<>>),
       MkLane("l7", "t1", "volume", TRUE, <<MkPoint(1, <<0, 1>>), MkPoint(1, <<1, 1>>)>>)>>,
     <<>>}

StepPatternInputs ==
    {DataA.stepSequencerPatterns[1],
     [DataA.stepSequencerPatterns[1] EXCEPT !.swing = 0, !.rows[1].steps[1] = MkStep(FALSE, 0)]}

InitEngine ==
    /\ project = createDefaultProject
    /\ audioEngine = registerAudioBuffer(loadProjectEngine(NewAudioEngine, DataA), "b1")
    /\ transport = createDefaultTransport
    /\ view = "playlist"
    /\ stepSequencerPatterns = <<>>
    /\ samples = <<>>
    /\ toneTransport = NewToneTransport
    /\ stepSeqView = Unmounted
    /\ undoStack = <<>>
    /\ redoStack = <<>>
    /\ nextId = 0
    /\ lastOp = [op |-> "init", playlist |-> <<>>, automation |-> <<>>, stepSequencer |-> <<>>]

EngineFrame ==
    UNCHANGED <<project, transport, view, stepSequencerPatterns, samples, toneTransport,
                stepSeqView, undoStack, redoStack, nextId>>

\* audioEngine.schedulePlaylist(tracks, patterns, bpm)
CallSchedulePlaylist(in, bpm) ==
    /\ audioEngine' = schedulePlaylist(audioEngine, in.tracks, in.patterns, bpm)
    /\ lastOp' = [lastOp EXCEPT !.op = "schedulePlaylist",
                                !.playlist = <<[tracks |-> in.tracks,
                                                patterns |-> in.patterns, bpm |-> bpm]>>]
    /\ EngineFrame

\* audioEngine.scheduleAutomation(lanes, tracks, bpm)
CallScheduleAutomation(lanes, bpm) ==
    /\ audioEngine' = scheduleAutomation(audioEngine, lanes, bpm)
    /\ lastOp' = [lastOp EXCEPT !.op = "scheduleAutomation",
                                !.automation = <<[lanes |-> lanes, bpm |-> bpm]>>]
    /\ EngineFrame

\* audioEngine.scheduleStepSequencer(pattern, bpm)
CallScheduleStepSequencer(pattern, bpm) ==
    /\ audioEngine' = scheduleStepSequencer(audioEngine, pattern, bpm)
    /\ lastOp' = [lastOp EXCEPT !.op = "scheduleStepSequencer",
                                !.stepSequencer = <<[pattern |-> pattern, bpm |-> bpm]>>]
    /\ EngineFrame

NextEngine ==
    \E bpm \in Bpms :
        \/ \E in \in PlaylistInputs : CallSchedulePlaylist(in, bpm)
        \/ \E lanes \in LaneInputs : CallScheduleAutomation(lanes, bpm)
        \/ \E pattern \in StepPatternInputs : CallScheduleStepSequencer(pattern, bpm)

SpecEngine == InitEngine /\ [][NextEngine]_vars

\* the engine with its registries and nothing scheduled
Idle(e) ==
    [e EXCEPT !.playlistParts = <<>>, !.audioPlayers = <<>>,
              !.automationEventIds = <<>>, !.stepSequencerPart = <<>>]

\* C1: after any sequence of builds the backend holds exactly what the latest
\* build of each kind submits on an engine with nothing scheduled: the latest
\* playlist build's note parts and sample players, the latest automation
\* build's events and the latest step-sequencer build's part.
C1_LatestBuildOfEachKind ==
    /\ lastOp.playlist # <<>> =>
          LET a == lastOp.playlist[1]
              b == schedulePlaylist(Idle(audioEngine), a.tracks, a.patterns, a.bpm)
          IN  /\ audioEngine.playlistParts = b.playlistParts
              /\ audioEngine.audioPlayers = b.audioPlayers
    /\ lastOp.automation # <<>> =>
          LET a == lastOp.automation[1]
          IN  audioEngine.automationEventIds =
                 scheduleAutomation(Idle(audioEngine), a.lanes, a.bpm).automationEventIds
    /\ lastOp.stepSequencer # <<>> =>
          LET a == lastOp.stepSequencer[1]
          IN  audioEngine.stepSequencerPart =
                 scheduleStepSequencer(Idle(audioEngine), a.pattern, a.bpm).stepSequencerPart

\* the lanes of the latest scheduleAutomation call that are enabled, have a
\* point, and target the tempo or a track with a channel, by index
EligibleOf(lanes) ==
    {l \in DOMAIN lanes :
        /\ lanes[l].enabled
        /\ Len(lanes[l].points) > 0
        /\ \/ lanes[l].targetParam = "tempo"
           \/ lanes[l].targetTrackId \in audioEngine.trackChannels}

\* C17: after scheduleAutomation(lanes, tracks, bpm) the backend holds exactly
\* one event per point of every eligible lane, at (60/bpm)*point.time seconds
\* with the point's value, and no other automation event; a lane is eligible
\* when it is enabled, has a point, and targets the tempo or a track with a
\* channel, so disabled lanes and lanes on a missing track schedule nothing.
C17_AutomationEvents ==
    lastOp.op = "scheduleAutomation" =>
        LET lanes == lastOp.automation[1].lanes
            bpm   == lastOp.automation[1].bpm
            E     == audioEngine.automationEventIds
        IN  /\ \A l \in EligibleOf(lanes) :
                 LET evs == SelectSeq(E, LAMBDA ev : ev.lane = lanes[l].id)
                 IN  /\ Len(evs) = Len(lanes[l].points)
                     /\ \A i \in DOMAIN evs :
                          /\ evs[i].time[1] * bpm = 60 * lanes[l].points[i].time * evs[i].time[2]
                          /\ evs[i].value = lanes[l].points[i].value
                          /\ evs[i].targetParam = lanes[l].targetParam
            /\ \A i \in DOMAIN E : \E l \in EligibleOf(lanes) : E[i].lane = lanes[l].id

\* C17 witness: a call at 60 bpm with four lanes, one disabled with a point
\* and one enabled on a track without a channel, left the three events of the
\* two eligible lanes, the last of them at 1 second
C17_Witness ==
    /\ lastOp.op = "scheduleAutomation"
    /\ lastOp.automation[1].bpm = 60
    /\ Len(lastOp.automation[1].lanes) = 4
    /\ \E l \in 1..4 : /\ ~lastOp.automation[1].lanes[l].enabled
                       /\ Len(lastOp.automation[1].lanes[l].points) > 0
    /\ \E l \in 1..4 : /\ lastOp.automation[1].lanes[l].enabled
                       /\ lastOp.automation[1].lanes[l].targetParam = "pan"
                       /\ lastOp.automation[1].lanes[l].targetTrackId
                              \notin audioEngine.trackChannels
    /\ Len(audioEngine.automationEventIds) = 3
    /\ audioEngine.automationEventIds[3].time = <<1, 1>>
    /\ lastOp.playlist # <<>>

----------------------------------------------------------------------------
(* SpecStep: scheduleStepSequencer as a function of its arguments.  Init     *)
(* draws a pattern of two rows and a tempo; instrument i1 is registered and *)
(* i2 is not.                                                               *)

MaxSteps == 2      \* steps of a row

MaxRoll == 4       \* roll?: 1 | 2 | 3 | 4

\* the steps of the first row: inactive, or active with an absent roll (0) or
\* a roll of 1 to 4
StepInputs ==
    {[active |-> FALSE, velocity |-> 100, roll |-> 3]}
    \cup {[active |-> TRUE, velocity |-> 100, roll |-> r] : r \in 0..MaxRoll}

\* the steps of the second row
PlainStepInputs ==
    {[active |-> a, velocity |-> 127, roll |-> 1] : a \in BOOLEAN}

StepPatterns ==
    {[id |-> "s1", instrumentId |-> i, steps |-> MaxSteps, swing |-> sw,
      rows |-> <<[note |-> "C4", steps |-> r1], [note |-> "D4", steps |-> r2]>>] :
        i \in {"i1", "i2"}, sw \in {0, 50, 100},
        r1 \in [1..MaxSteps -> StepInputs], r2 \in [1..MaxSteps -> PlainStepInputs]}

InitStep ==
    /\ \E bpm \in Bpms : project = [createDefaultProject EXCEPT !.bpm = bpm]
    /\ \E pattern \in StepPatterns : stepSequencerPatterns = <<pattern>>
    /\ audioEngine = createInstrument(NewAudioEngine, [id |-> "i1"])
    /\ transport = createDefaultTransport
    /\ view = "stepsequencer"
    /\ samples = <<>>
    /\ toneTransport = NewToneTransport
    /\ stepSeqView = Unmounted
    /\ undoStack = <<>>
    /\ redoStack = <<>>
    /\ nextId = 0
    /\ lastOp = [op |-> "init"]

\* audioEngine.scheduleStepSequencer(pattern, project.bpm)
CallStepSequencer ==
    /\ audioEngine' = scheduleStepSequencer(audioEngine, stepSequencerPatterns[1], project.bpm)
    /\ lastOp' = [op |-> "scheduleStepSequencer"]
    /\ UNCHANGED <<project, transport, view, stepSequencerPatterns, samples,
                   toneTransport, stepSeqView, undoStack, redoStack, nextId>>

NextStep == CallStepSequencer

SpecStep == InitStep /\ [][NextStep]_vars

\* the hits the backend holds
StepEvents ==
    IF audioEngine.stepSequencerPart = <<>> THEN <<>>
    ELSE audioEngine.stepSequencerPart[1].events

\* <<row, i, k>>: hit k of the active step at the 0-based index i of a row, an
\* absent roll counting as 1
HitOrigins ==
    LET rows == stepSequencerPatterns[1].rows
    IN  {o \in (DOMAIN rows) \X (0..(MaxSteps - 1)) \X (0..(MaxRoll - 1)) :
            LET step == rows[o[1]].steps[o[2] + 1]
            IN  /\ step.active
                /\ o[3] < (IF step.roll = 0 THEN 1 ELSE step.roll)}

\* ev is the hit the claim describes for origin o: its time is
\* i*stepDuration + swingOffset + k*(stepDuration/r) with stepDuration =
\* 60/bpm/4 = 15/bpm, compared by cross-multiplication
IsHitOf(ev, o) ==
    LET row   == stepSequencerPatterns[1].rows[o[1]]
        step  == row.steps[o[2] + 1]
        r     == IF step.roll = 0 THEN 1 ELSE step.roll
        swing == IF o[2] % 2 = 1 THEN stepSequencerPatterns[1].swing ELSE 0
    IN  /\ ev.note = row.note
        /\ ev.velocity[1] * 127 = step.velocity * ev.velocity[2]
        /\ ev.time[1] * project.bpm * 200 * r
              = 15 * (200 * r * o[2] + r * swing + 200 * o[3]) * ev.time[2]

\* the hits the backend holds are one per origin, and nothing else
HitsExact ==
    /\ Len(StepEvents) = Cardinality(HitOrigins)
    /\ \A i \in DOMAIN StepEvents :
         Count(StepEvents, StepEvents[i])
            = Cardinality({o \in HitOrigins : IsHitOf(StepEvents[i], o)})

\* C18, as stated: with stepDuration = 60/bpm/4, scheduleStepSequencer emits
\* for every active step at index i with roll r (an absent roll counting as 1)
\* exactly r hits, hit k at i*stepDuration + swingOffset + k*(stepDuration/r),
\* with swingOffset = stepDuration*(swing/100)*0.5 for odd i and 0 for even i,
\* each with velocity step.velocity/127 on the row's pitch, and nothing for an
\* inactive step.
C18_StepHits == lastOp.op = "scheduleStepSequencer" => HitsExact

\* C18, amended: as stated when the pattern's instrument is registered; a
\* pattern whose instrument is not registered emits nothing.
C18_StepHitsOfRegistered ==
    lastOp.op = "scheduleStepSequencer" =>
        IF stepSequencerPatterns[1].instrumentId \in audioEngine.instruments
        THEN HitsExact
        ELSE StepEvents = <<>> /\ audioEngine.stepSequencerPart = <<>>

\* C18 witness: at 120 bpm and swing 50 the second step of the first row,
\* active with roll 3, gave hits at 5/32, 19/96 and 23/96 seconds, and the
\* first step, active without a roll, one hit at 0
C18_Witness ==
    /\ lastOp.op = "scheduleStepSequencer"
    /\ project.bpm = 120 /\ stepSequencerPatterns[1].swing = 50
    /\ stepSequencerPatterns[1].rows[1].steps[1] = [active |-> TRUE, velocity |-> 100, roll |-> 0]
    /\ stepSequencerPatterns[1].rows[1].steps[2] = [active |-> TRUE, velocity |-> 100, roll |-> 3]
    /\ \A i \in 1..MaxSteps : ~stepSequencerPatterns[1].rows[2].steps[i].active
    /\ Len(StepEvents) = 4
    /\ StepEvents[1].time = <<0, 1>>
    /\ StepEvents[2].time = <<5, 32>>
    /\ StepEvents[3].time = <<19, 96>>
    /\ StepEvents[4].time = <<23, 96>>
    /\ StepEvents[4].velocity = <<100, 127>> /\ StepEvents[4].note = "C4"

\* the loop period of the pattern: steps sixteenth notes, in seconds
LoopPeriod == Frac(60 * stepSequencerPatterns[1].steps, project.bpm * 4)

\* C29: every hit scheduleStepSequencer emits is at a time of at least 0 and
\* strictly before the loop period steps * stepDuration
C29_HitsWithinLoop ==
    lastOp.op = "scheduleStepSequencer" =>
        \A i \in DOMAIN StepEvents :
            /\ RLeq(<<0, 1>>, StepEvents[i].time)
            /\ RLess(StepEvents[i].time, LoopPeriod)

\* the rows whose last step is active at an odd index with swing * roll >= 200
LateRows ==
    LET pattern == stepSequencerPatterns[1]
        last == pattern.steps
    IN  {r \in DOMAIN pattern.rows :
            /\ (last - 1) % 2 = 1
            /\ pattern.rows[r].steps[last].active
            /\ pattern.swing * pattern.rows[r].steps[last].roll >= 200}

\* C29 (amended): every hit is at a time of at least 0; the hits on or beyond
\* the loop period are hits of the last step of a row where that step is
\* active at an odd index with swing * roll >= 200, and every such row has one
C29_HitsWithinLoopButLateRolls ==
    lastOp.op = "scheduleStepSequencer" =>
        LET pattern == stepSequencerPatterns[1]
            late == {i \in DOMAIN StepEvents : ~RLess(StepEvents[i].time, LoopPeriod)}
        IN  /\ \A i \in DOMAIN StepEvents : RLeq(<<0, 1>>, StepEvents[i].time)
            /\ \A i \in late : \E r \in LateRows : pattern.rows[r].note = StepEvents[i].note
            /\ StepEvents # <<>> =>
                  \A r \in LateRows : \E i \in late : pattern.rows[r].note = StepEvents[i].note

\* hits have been emitted for a pattern at swing 50 whose first row has a roll
\* of 3 on its first step and a roll of 4 on its last step, at an odd index:
\* the last hit of that roll is at the loop period, the others before it
C29_Witness ==
    /\ lastOp.op = "scheduleStepSequencer"
    /\ stepSequencerPatterns[1].swing = 50
    /\ stepSequencerPatterns[1].steps % 2 = 0
    /\ stepSequencerPatterns[1].rows[1].steps[1].active
    /\ stepSequencerPatterns[1].rows[1].steps[1].roll = 3
    /\ stepSequencerPatterns[1].rows[1].steps[stepSequencerPatterns[1].steps].active
    /\ stepSequencerPatterns[1].rows[1].steps[stepSequencerPatterns[1].steps].roll = 4
    /\ LateRows = {1}
    /\ Cardinality({i \in DOMAIN StepEvents : StepEvents[i].time = LoopPeriod}) = 1
    /\ Cardinality({i \in DOMAIN StepEvents : RLess(StepEvents[i].time, LoopPeriod)}) >= 6

----------------------------------------------------------------------------
(* SpecInterp: the automation interpolator as a function of its arguments.  *)
(* Init draws a lane whose points are in time order, as the store keeps     *)
(* them; a query records its time and its result in lastOp.  Point times    *)
(* are whole beats, query times are halves of beats, values are rationals.  *)

MaxPoints == 3       \* points of a lane
MaxPointTime == 2    \* largest time of a point, in beats

\* as NeutralValue, with 0 for 0.5
NeutralValueZero == <<0, 1>>

NeutralValue == <<1, 2>>   \* return 0.5

\* the result of an arithmetic expression that divides by zero
NotANumber == "NaN"

Curves == {"linear", "exponential", "step"}

PointValues == {<<1, 5>>, <<4, 5>>}

PointInputs ==
    {[time |-> t, value |-> v, curve |-> c] :
        t \in 0..MaxPointTime, v \in PointValues, c \in Curves}

\* the point sequences in non-decreasing time order
SortedPointSeqs ==
    UNION {{ps \in [1..n -> PointInputs] :
                \A i \in 1..(n - 1) : ps[i].time <= ps[i + 1].time} : n \in 0..MaxPoints}

QueryTimes == {Frac(k, 2) : k \in (0 - 1)..(2 * MaxPointTime + 1)}

\* as SegmentFrom, with the segments closed on the right: points[i].time < time
\* and time <= points[i + 1].time
RECURSIVE SegmentFromRightClosed(_, _, _)
SegmentFromRightClosed(points, time, i) ==
    IF i > Len(points) - 1 THEN 0
    ELSE IF RLess(<<points[i].time, 1>>, time) /\ RLeq(time, <<points[i + 1].time, 1>>)
         THEN i
         ELSE SegmentFromRightClosed(points, time, i + 1)

\* for (i = 0; i < points.length - 1; i++) if (time >= points[i].time &&
\* time < points[i + 1].time) ... break: the 1-based index found, or 0
RECURSIVE SegmentFrom(_, _, _)
SegmentFrom(points, time, i) ==
    IF i > Len(points) - 1 THEN 0
    ELSE IF RLeq(<<points[i].time, 1>>, time) /\ RLess(time, <<points[i + 1].time, 1>>)
         THEN i
         ELSE SegmentFrom(points, time, i + 1)

\* as interpolateAutomation, reading the curve of the segment's right point
interpolateAutomationRightCurve(points, time) ==
    IF Len(points) = 0 THEN NeutralValue
    ELSE IF Len(points) = 1 THEN points[1].value
    ELSE IF RLeq(time, <<points[1].time, 1>>) THEN points[1].value
    ELSE IF RLeq(<<points[Len(points)].time, 1>>, time) THEN points[Len(points)].value
    ELSE LET s          == SegmentFrom(points, time, 1)
             startPoint == IF s = 0 THEN points[1] ELSE points[s]
             endPoint   == IF s = 0 THEN points[2] ELSE points[s + 1]
             span       == <<endPoint.time - startPoint.time, 1>>
         IN  IF endPoint.curve = "step" THEN startPoint.value
             ELSE IF span[1] = 0 THEN NotANumber
             ELSE LET t == RDiv(RSub(time, <<startPoint.time, 1>>), span)
                      d == RSub(endPoint.value, startPoint.value)
                  IN  IF endPoint.curve = "exponential"
                      THEN RAdd(startPoint.value, RMul(d, RMul(t, t)))
                      ELSE RAdd(startPoint.value, RMul(d, t))

interpolateAutomation(points, time) ==
    IF Len(points) = 0 THEN NeutralValue
    ELSE IF Len(points) = 1 THEN points[1].value
    ELSE IF RLeq(time, <<points[1].time, 1>>) THEN points[1].value
    ELSE IF RLeq(<<points[Len(points)].time, 1>>, time) THEN points[Len(points)].value
    ELSE LET s          == SegmentFrom(points, time, 1)
             startPoint == IF s = 0 THEN points[1] ELSE points[s]
             endPoint   == IF s = 0 THEN points[2] ELSE points[s + 1]
             span       == <<endPoint.time - startPoint.time, 1>>
         IN  IF startPoint.curve = "step" THEN startPoint.value
             ELSE IF span[1] = 0 THEN NotANumber
             ELSE LET t == RDiv(RSub(time, <<startPoint.time, 1>>), span)
                      d == RSub(endPoint.value, startPoint.value)
                  IN  IF startPoint.curve = "exponential"
                      THEN RAdd(startPoint.value, RMul(d, RMul(t, t)))
                      ELSE RAdd(startPoint.value, RMul(d, t))

getAutomationValueAtTime(lane, time) == interpolateAutomation(lane.points, time)

InitInterp ==
    /\ \E ps \in SortedPointSeqs :
          project = [createDefaultProject EXCEPT
                        !.automationLanes = <<MkLane("l1", "t1", "volume", TRUE, ps)>>]
    /\ audioEngine = NewAudioEngine
    /\ InitRest

\* audioEngine.getAutomationValueAtTime(lane, time)
QueryAutomation(time) ==
    /\ lastOp' = [op |-> "getAutomationValueAtTime", time |-> time,
                  result |-> getAutomationValueAtTime(project.automationLanes[1], time)]
    /\ UNCHANGED <<project, transport, view, stepSequencerPatterns, samples, audioEngine,
                   toneTransport, stepSeqView, undoStack, redoStack, nextId>>

NextInterp == \E time \in QueryTimes : QueryAutomation(time)

SpecInterp == InitInterp /\ [][NextInterp]_vars

Queried == lastOp.op = "getAutomationValueAtTime"

QueriedPoints == project.automationLanes[1].points

\* C13, as stated: for a lane in time order, two or more points at one time
\* included, and every point p of it, the value at p.time is p.value.
C13_ValueAtPoint ==
    Queried =>
        \A i \in DOMAIN QueriedPoints :
            lastOp.time = <<QueriedPoints[i].time, 1>> => lastOp.result = QueriedPoints[i].value

\* C13, amended: the value at p.time is p.value for every point p that is the
\* only point at its time; where several points share a time, the value there
\* is that of the lane's first point if it is one of them, and that of the
\* last of them otherwise.
C13_ValueAtPointOrLastOfTies ==
    Queried =>
        \A i \in DOMAIN QueriedPoints :
            lastOp.time = <<QueriedPoints[i].time, 1>> =>
                LET ties == {j \in DOMAIN QueriedPoints :
                                QueriedPoints[j].time = QueriedPoints[i].time}
                IN  lastOp.result =
                        IF ties = {i} THEN QueriedPoints[i].value
                        ELSE IF 1 \in ties THEN QueriedPoints[1].value
                        ELSE QueriedPoints[CHOOSE j \in ties : \A k \in ties : k <= j].value

\* C13 witness: a query at the time of the middle point of three points at
\* distinct times, and its value differs from its neighbours' values
C13_Witness ==
    /\ Queried
    /\ Len(QueriedPoints) = 3
    /\ QueriedPoints[1].time < QueriedPoints[2].time
    /\ QueriedPoints[2].time < QueriedPoints[3].time
    /\ QueriedPoints[1].curve = "exponential"
    /\ QueriedPoints[2].value # QueriedPoints[1].value
    /\ lastOp.time = <<QueriedPoints[2].time, 1>>
    /\ lastOp.result = QueriedPoints[2].value

\* the value the claim gives between the adjacent points i and i + 1, from the
\* curve of point i: frac = (t - t0)/(t1 - t0)
CurveValue(i, time) ==
    LET left  == QueriedPoints[i]
        right == QueriedPoints[i + 1]
        frac  == Frac(time[1] - left.time * time[2], time[2] * (right.time - left.time))
        rise  == RSub(right.value, left.value)
    IN  CASE left.curve = "linear"      -> RAdd(left.value, RMul(rise, frac))
          [] left.curve = "exponential" -> RAdd(left.value, RMul(RMul(rise, frac), frac))
          [] left.curve = "step"        -> left.value

\* C14: at a time strictly between two adjacent points (t0, v0, curve0) and
\* (t1, v1) of a lane in time order, with frac = (t - t0)/(t1 - t0), the value is
\* v0 + (v1 - v0)*frac for a linear curve0, v0 + (v1 - v0)*frac*frac for an
\* exponential curve0 and v0 for a step curve0, whatever the curve of the right
\* point.
C14_CurveOfLeftPoint ==
    Queried =>
        \A i \in 1..(Len(QueriedPoints) - 1) :
            (/\ RLess(<<QueriedPoints[i].time, 1>>, lastOp.time)
             /\ RLess(lastOp.time, <<QueriedPoints[i + 1].time, 1>>))
                => lastOp.result = CurveValue(i, lastOp.time)

\* C14 witness: a query at beat 1/2 between an exponential point (0, 1/5) and a
\* step point (2, 4/5) that follows two tied points: frac is 1/4 and the value
\* 1/5 + (3/5)/16 = 19/80
C14_Witness ==
    /\ Queried
    /\ Len(QueriedPoints) = 3
    /\ QueriedPoints[1].time = 0 /\ QueriedPoints[2].time = 0 /\ QueriedPoints[3].time = 2
    /\ QueriedPoints[1].curve = "linear"
    /\ QueriedPoints[2].curve = "exponential" /\ QueriedPoints[2].value = <<1, 5>>
    /\ QueriedPoints[3].curve = "step" /\ QueriedPoints[3].value = <<4, 5>>
    /\ lastOp.time = <<1, 2>>
    /\ lastOp.result = <<19, 80>>

FirstPoint == QueriedPoints[1]

LastPoint == QueriedPoints[Len(QueriedPoints)]

\* C15, as stated: the value is 0.5 for a lane without points, the point's
\* value at every time for a lane with one point, the first point's value at
\* every time at or before the first point, and the last point's value at
\* every time at or after the last point.
C15_FlatOutsideLane ==
    Queried =>
        /\ Len(QueriedPoints) = 0 => lastOp.result = <<1, 2>>
        /\ Len(QueriedPoints) = 1 => lastOp.result = FirstPoint.value
        /\ Len(QueriedPoints) > 0 =>
              /\ RLeq(lastOp.time, <<FirstPoint.time, 1>>) => lastOp.result = FirstPoint.value
              /\ RLeq(<<LastPoint.time, 1>>, lastOp.time) => lastOp.result = LastPoint.value

\* C15, amended: as stated, with the last point's value at every time at or
\* after the last point that is later than the first point's time.
C15_FlatOutsideLaneFirstWins ==
    Queried =>
        /\ Len(QueriedPoints) = 0 => lastOp.result = <<1, 2>>
        /\ Len(QueriedPoints) = 1 => lastOp.result = FirstPoint.value
        /\ Len(QueriedPoints) > 0 =>
              /\ RLeq(lastOp.time, <<FirstPoint.time, 1>>) => lastOp.result = FirstPoint.value
              /\ (/\ RLeq(<<LastPoint.time, 1>>, lastOp.time)
                  /\ RLess(<<FirstPoint.time, 1>>, lastOp.time))
                    => lastOp.result = LastPoint.value

\* C15 witness: a query at the time the three points of a lane share, which
\* gives the first point's value and not the last point's
C15_Witness ==
    /\ Queried
    /\ Len(QueriedPoints) = 3
    /\ FirstPoint.time = 1 /\ LastPoint.time = 1
    /\ FirstPoint.value # LastPoint.value
    /\ lastOp.time = <<1, 1>>
    /\ lastOp.result = FirstPoint.value

----------------------------------------------------------------------------
(* SpecLane: the store's automation point actions on one lane, which starts *)
(* empty as addAutomationLane leaves it.  Here lastOp records the name of   *)
(* the latest call.                                                         *)

\* values given to the store, in and out of [0, 1]
ValueInputs == {<<0 - 1, 2>>, <<1, 2>>, <<3, 2>>}

\* times given to the store, in beats
TimeInputs == {0, 1}

\* { time, value } as a drag gives them, and { time } alone
PointUpdates ==
    {[time |-> t, value |-> v] : t \in TimeInputs, v \in ValueInputs}
    \cup {[time |-> t] : t \in TimeInputs}

LaneIds == {"l1", "l9"}

\* as Clamp01, without the lower end
Clamp01Above(value) == IF RLess(<<1, 1>>, value) THEN <<1, 1>> ELSE value

\* Math.max(0, Math.min(1, value))
Clamp01(value) ==
    IF RLess(value, <<0, 1>>) THEN <<0, 1>>
    ELSE IF RLess(<<1, 1>>, value) THEN <<1, 1>> ELSE value

\* point put behind the points of sorted that are not later than it
InsertByTime(sorted, point) ==
    LET k == Cardinality({i \in DOMAIN sorted : sorted[i].time <= point.time})
    IN  SubSeq(sorted, 1, k) \o <<point>> \o SubSeq(sorted, k + 1, Len(sorted))

\* points.sort((a, b) => a.time - b.time), a stable sort
RECURSIVE SortByTime(_)
SortByTime(points) ==
    IF Len(points) = 0 THEN <<>>
    ELSE InsertByTime(SortByTime(SubSeq(points, 1, Len(points) - 1)), points[Len(points)])

LaneFrame ==
    UNCHANGED <<transport, view, stepSequencerPatterns, samples, audioEngine,
                toneTransport, stepSeqView, undoStack, redoStack>>

\* addAutomationPoint(laneId, time, value), with the default curve
addAutomationPoint(laneId, time, value) ==
    LET l     == FindIndex(project.automationLanes, laneId)
        point == [id |-> uuidv4(nextId + 1), time |-> time, value |-> Clamp01(value),
                  curve |-> "linear"]
    IN  /\ ~EffectsPending
        /\ nextId < MaxPoints
        /\ nextId' = nextId + 1
        /\ project' = IF l = 0 THEN project
                      ELSE [project EXCEPT !.automationLanes[l].points =
                               SortByTime(Append(@, point))]
        /\ lastOp' = [op |-> "addAutomationPoint"]
        /\ LaneFrame

removeAutomationPoint(laneId, pointId) ==
    LET l == FindIndex(project.automationLanes, laneId)
    IN  /\ ~EffectsPending
        /\ project' = IF l = 0 THEN project
                      ELSE [project EXCEPT !.automationLanes[l].points =
                               SelectSeq(@, LAMBDA p : p.id # pointId)]
        /\ lastOp' = [op |-> "removeAutomationPoint"]
        /\ UNCHANGED nextId
        /\ LaneFrame

updateAutomationPoint(laneId, pointId, updates) ==
    LET l == FindIndex(project.automationLanes, laneId)
        i == IF l = 0 THEN 0 ELSE FindIndex(project.automationLanes[l].points, pointId)
    IN  /\ ~EffectsPending
        /\ project' =
              IF i = 0 THEN project
              ELSE LET assigned == Assign(project.automationLanes[l].points[i], updates)
                       point    == IF "value" \in DOMAIN updates
                                   THEN [assigned EXCEPT !.value = Clamp01(@)]
                                   ELSE assigned
                   IN  [project EXCEPT !.automationLanes[l].points =
                           SortByTime([@ EXCEPT ![i] = point])]
        /\ lastOp' = [op |-> "updateAutomationPoint"]
        /\ UNCHANGED nextId
        /\ LaneFrame

toggleAutomationLane(laneId) ==
    LET l == FindIndex(project.automationLanes, laneId)
    IN  /\ ~EffectsPending
        /\ project' = IF l = 0 THEN project
                      ELSE [project EXCEPT !.automationLanes[l].enabled = ~@]
        /\ lastOp' = [op |-> "toggleAutomationLane"]
        /\ UNCHANGED nextId
        /\ LaneFrame

InitLane ==
    /\ project = [createDefaultProject EXCEPT
                     !.automationLanes = <<MkLane("l1", "t1", "volume", TRUE, <<>>)>>]
    /\ audioEngine = NewAudioEngine
    /\ InitRest

\* the ids a caller can name: those of the lane's points and one of no point
PointIds == {project.automationLanes[1].points[i].id :
                i \in DOMAIN project.automationLanes[1].points} \cup {NoId}

NextLane ==
    \E laneId \in LaneIds :
        \/ \E time \in TimeInputs, value \in ValueInputs :
              addAutomationPoint(laneId, time, value)
        \/ \E pointId \in PointIds :
              \/ removeAutomationPoint(laneId, pointId)
              \/ \E updates \in PointUpdates : updateAutomationPoint(laneId, pointId, updates)
        \/ toggleAutomationLane(laneId)

SpecLane == InitLane /\ [][NextLane]_vars

\* C16: after any sequence of addAutomationPoint, updateAutomationPoint,
\* removeAutomationPoint and toggleAutomationLane calls from an empty lane, the
\* lane's points are in non-decreasing time order and every value is in [0, 1].
C16_LaneSortedAndClamped ==
    \A l \in DOMAIN project.automationLanes :
        LET points == project.automationLanes[l].points
        IN  /\ \A i \in 1..(Len(points) - 1) : points[i].time <= points[i + 1].time
            /\ \A i \in DOMAIN points :
                 RLeq(<<0, 1>>, points[i].value) /\ RLeq(points[i].value, <<1, 1>>)

\* C16 witness: an update left a disabled lane of three points, the latest
\* added in front of the first, with the values 0 and 1 among them, which
\* only the clamping of -1/2 and 3/2 gives
C16_Witness ==
    /\ lastOp.op = "updateAutomationPoint"
    /\ ~project.automationLanes[1].enabled
    /\ Len(project.automationLanes[1].points) = 3
    /\ project.automationLanes[1].points[1].id = uuidv4(3)
    /\ project.automationLanes[1].points[3].id = uuidv4(1)
    /\ \E i, j \in 1..3 :
         /\ project.automationLanes[1].points[i].value = <<1, 1>>
         /\ project.automationLanes[1].points[j].value = <<0, 1>>

----------------------------------------------------------------------------
(* Project management, src/src/main.tsx: removePattern, addInstrument,      *)
(* addTrack, undo, redo, newProject, loadTemplate, saveProject and          *)
(* loadProject.  These actions leave lastOp to the specification that uses  *)
(* them.                                                                    *)

\* as WithoutPattern, dropping the clips of samples as well
WithoutPatternNorSamples(p, patternId) ==
    [p EXCEPT !.patterns = SelectSeq(@, LAMBDA q : q.id # patternId),
              !.tracks = [t \in DOMAIN @ |->
                             [@[t] EXCEPT !.clips =
                                 SelectSeq(@, LAMBDA c : c.patternId # patternId
                                                         /\ c.patternId # NoId)]]]

\* the project removePattern leaves
WithoutPattern(p, patternId) ==
    [p EXCEPT !.patterns = SelectSeq(@, LAMBDA q : q.id # patternId),
              !.tracks = [t \in DOMAIN @ |->
                             [@[t] EXCEPT !.clips =
                                 SelectSeq(@, LAMBDA c : c.patternId # patternId)]]]

removePattern(patternId) ==
    /\ ~EffectsPending
    /\ SaveHistory
    /\ project' = WithoutPattern(project, patternId)
    /\ UNCHANGED <<transport, view, stepSequencerPatterns, samples, audioEngine,
                   toneTransport, stepSeqView, nextId>>

addInstrument ==
    /\ ~EffectsPending
    /\ nextId < MaxIds
    /\ SaveHistory
    /\ audioEngine' = createInstrument(audioEngine, [id |-> uuidv4(nextId + 1)])
    /\ project' = [project EXCEPT !.instruments = Append(@, [id |-> uuidv4(nextId + 1)])]
    /\ nextId' = nextId + 1
    /\ UNCHANGED <<transport, view, stepSequencerPatterns, samples, toneTransport,
                   stepSeqView>>

\* addTrack(type): a midi track comes with an instrument of its own
addTrack(type) ==
    LET drawn == IF type = "midi" THEN 2 ELSE 1
        instrumentId == IF type = "midi" THEN uuidv4(nextId + 2) ELSE NoId
        track == [MkTrack(uuidv4(nextId + 1), FALSE, FALSE, instrumentId, <<>>)
                     EXCEPT !.type = type]
        withInstrument == IF type = "midi"
                          THEN createInstrument(audioEngine, [id |-> instrumentId])
                          ELSE audioEngine
    IN  /\ ~EffectsPending
        /\ nextId + drawn <= MaxIds
        /\ SaveHistory
        /\ audioEngine' = createTrackChannel(withInstrument, track)
        /\ project' = [project EXCEPT
                          !.instruments = IF type = "midi"
                                          THEN Append(@, [id |-> instrumentId]) ELSE @,
                          !.tracks = Append(@, track)]
        /\ nextId' = nextId + drawn
        /\ UNCHANGED <<transport, view, stepSequencerPatterns, samples, toneTransport,
                       stepSeqView>>

\* undo() with a history to go back to: HistoryManager.undo and the assignment
undo ==
    /\ ~EffectsPending
    /\ undoStack # <<>>
    /\ redoStack' = Append(redoStack,
                           JsonClone([project |-> project,
                                      stepSequencerPatterns |-> stepSequencerPatterns]))
    /\ undoStack' = SubSeq(undoStack, 1, Len(undoStack) - 1)
    /\ project' = undoStack[Len(undoStack)].project
    /\ stepSequencerPatterns' = undoStack[Len(undoStack)].stepSequencerPatterns
    /\ UNCHANGED <<transport, view, samples, audioEngine, toneTransport, stepSeqView,
                   nextId>>

\* as redo, leaving the undo history alone
redoForgets ==
    /\ ~EffectsPending
    /\ redoStack # <<>>
    /\ redoStack' = SubSeq(redoStack, 1, Len(redoStack) - 1)
    /\ project' = redoStack[Len(redoStack)].project
    /\ stepSequencerPatterns' = redoStack[Len(redoStack)].stepSequencerPatterns
    /\ UNCHANGED <<undoStack, transport, view, samples, audioEngine, toneTransport,
                   stepSeqView, nextId>>

\* redo() with an undone state to return to: HistoryManager.redo and the assignment
redo ==
    /\ ~EffectsPending
    /\ redoStack # <<>>
    /\ undoStack' = Append(undoStack,
                           JsonClone([project |-> project,
                                      stepSequencerPatterns |-> stepSequencerPatterns]))
    /\ redoStack' = SubSeq(redoStack, 1, Len(redoStack) - 1)
    /\ project' = redoStack[Len(redoStack)].project
    /\ stepSequencerPatterns' = redoStack[Len(redoStack)].stepSequencerPatterns
    /\ UNCHANGED <<transport, view, samples, audioEngine, toneTransport, stepSeqView,
                   nextId>>

newProject ==
    /\ ~EffectsPending
    /\ audioEngine' = dispose(audioEngine)
    /\ project' = createDefaultProject
    /\ stepSequencerPatterns' = <<>>
    /\ transport' = createDefaultTransport
    /\ stepSeqView' = [stepSeqView EXCEPT !.deps = <<>>]
    /\ UNCHANGED <<view, samples, toneTransport, undoStack, redoStack, nextId>>

\* loadTemplate(templateFn), template being what templateFn() returns
loadTemplate(template) ==
    /\ ~EffectsPending
    /\ audioEngine' = CreateTrackChannels(
                          CreateInstruments(dispose(audioEngine),
                                            template.project.instruments, 1),
                          template.project.tracks, 1)
    /\ project' = template.project
    /\ stepSequencerPatterns' = template.stepSequencerPatterns
    /\ transport' = createDefaultTransport
    /\ stepSeqView' = [stepSeqView EXCEPT !.deps = <<>>]
    /\ UNCHANGED <<view, samples, toneTransport, undoStack, redoStack, nextId>>

\* the text saveProject() returns: a text is <<v>> for the text of the JSON
\* value v, and <<>> for a text JSON.parse throws on
saveProjectOmitsSteps(p, patterns) ==
    <<[version |-> "1.0.0", project |-> StringifyProject(p)]>>

saveProject(p, patterns) ==
    <<[version |-> "1.0.0", project |-> StringifyProject(p),
       stepSequencerPatterns |-> patterns]>>

\* createInstrument throws on a sampler or drum kit without settings
\* (instrument.settings.urls)
CreateInstrumentThrows(instrument) ==
    /\ "type" \in DOMAIN instrument
    /\ instrument.type \in {"sampler", "drumkit"}
    /\ "settings" \notin DOMAIN instrument

\* the index of the first instrument createInstrument throws on, 0 for none
RECURSIVE FirstThrowing(_, _)
FirstThrowing(instruments, i) ==
    IF i > Len(instruments) THEN 0
    ELSE IF CreateInstrumentThrows(instruments[i]) THEN i
    ELSE FirstThrowing(instruments, i + 1)

\* what loadProject(jsonData) returns
loadProjectResult(jsonData) ==
    /\ jsonData # <<>>
    /\ "project" \in DOMAIN jsonData[1]
    /\ FirstThrowing(jsonData[1].project.instruments, 1) = 0

\* loadProject(jsonData): the whole handler, the catch included
loadProject(jsonData) ==
    LET hasProject == jsonData # <<>> /\ "project" \in DOMAIN jsonData[1]
        data == jsonData[1]
        k == FirstThrowing(data.project.instruments, 1)
        rebuilt == IF k = 0
                   THEN CreateTrackChannels(
                            CreateInstruments(reset(audioEngine),
                                              data.project.instruments, 1),
                            data.project.tracks, 1)
                   ELSE CreateInstruments(reset(audioEngine),
                                          SubSeq(data.project.instruments, 1, k - 1), 1)
    IN  /\ ~EffectsPending
        /\ audioEngine' = IF hasProject THEN rebuilt ELSE audioEngine
        /\ IF loadProjectResult(jsonData)
           THEN /\ project' = ParseProject(data.project)
                /\ stepSequencerPatterns' =
                       IF "stepSequencerPatterns" \in DOMAIN data
                       THEN data.stepSequencerPatterns ELSE <<>>
                /\ stepSeqView' = [stepSeqView EXCEPT !.deps = <<>>]
           ELSE UNCHANGED <<project, stepSequencerPatterns, stepSeqView>>
        /\ UNCHANGED <<transport, view, samples, toneTransport, undoStack, redoStack,
                       nextId>>

----------------------------------------------------------------------------
(* SpecHistory: a project is loaded from a file, edited, undone and redone. *)
(* SpecFile: a project is loaded from a file, edited, saved and loaded      *)
(* again.                                                                   *)

\* a saved project with clips of two patterns and of a sample on one track
DataC ==
    [project |->
        [bpm |-> 120,
         tracks |-> <<MkTrack("t1", FALSE, FALSE, "i1",
                              <<MkClip("c1", "p1", NoId, 0, 4, 0),
                                MkClip("c2", "p2", NoId, 4, 4, 0),
                                MkClip("c3", NoId, "b1", 0, 4, 0),
                                MkClip("c4", "p1", NoId, 8, 4, 0)>>),
                      [MkTrack("t2", FALSE, FALSE, NoId,
                               <<MkClip("c5", NoId, "b1", 0, 4, 0)>>) EXCEPT !.type = "audio"]>>,
         patterns |-> <<MkPattern("p1", "i1", <<MkNote(1, <<"C4", 0, 1, 100>>)>>),
                        MkPattern("p2", "i1", <<MkNote(1, <<"D4", 1, 2, 64>>)>>)>>,
         instruments |-> <<[id |-> "i1"]>>,
         automationLanes |-> <<MkLane("l3", NoId, "tempo", TRUE, <<MkPoint(1, <<1, 1>>)>>)>>],
     stepSequencerPatterns |-> DataA.stepSequencerPatterns]

\* the files a user opens: two saved projects
FileTexts ==
    {<<[version |-> "1.0.0", project |-> StringifyProject(d.project),
        stepSequencerPatterns |-> d.stepSequencerPatterns]>> : d \in {DataB, DataC}}

\* texts that are no project file: no JSON, no project property, and a project
\* whose second instrument is a sampler without settings
MalformedTexts ==
    {<<>>,
     <<[version |-> "1.0.0"]>>,
     <<[version |-> "1.0.0",
        project |-> [StringifyProject(DataB.project) EXCEPT
                        !.instruments = <<[id |-> "i7"], [id |-> "i8", type |-> "sampler"]>>],
        stepSequencerPatterns |-> <<>>]>>}

\* the call that ran, the text of the latest saveProject() with the state it
\* was taken from, and, for undo and for the redo that follows it at once,
\* the state undo ran from
Did(op, arg, result) ==
    [op |-> op, arg |-> arg, result |-> result, saved |-> lastOp.saved,
     before |-> IF op = "undo"
                THEN <<[project |-> project,
                        stepSequencerPatterns |-> stepSequencerPatterns,
                        undoStack |-> undoStack]>>
                ELSE IF op = "redo" /\ lastOp.op = "undo" THEN lastOp.before
                ELSE <<>>]

InitProject ==
    /\ project = createDefaultProject
    /\ audioEngine = NewAudioEngine
    /\ transport = createDefaultTransport
    /\ view = "playlist"
    /\ stepSequencerPatterns = <<>>
    /\ samples = <<>>
    /\ toneTransport = NewToneTransport
    /\ stepSeqView = Unmounted
    /\ undoStack = <<>>
    /\ redoStack = <<>>
    /\ nextId = 0
    /\ lastOp = [op |-> "init", arg |-> NoId, result |-> TRUE, saved |-> <<>>,
                 before |-> <<>>]

\* saveProject(): the store is read, the text goes to the caller
CallSaveProject ==
    /\ ~EffectsPending
    /\ lastOp' = [Did("saveProject", NoId, TRUE) EXCEPT
                     !.saved = <<[json |-> saveProject(project, stepSequencerPatterns),
                                  project |-> project,
                                  stepSequencerPatterns |-> stepSequencerPatterns]>>]
    /\ UNCHANGED <<project, transport, view, stepSequencerPatterns, samples,
                   audioEngine, toneTransport, stepSeqView, undoStack, redoStack, nextId>>

\* loadProject of a file
CallLoadProject ==
    \E jsonData \in FileTexts :
        /\ loadProject(jsonData)
        /\ lastOp' = Did("loadProject", "file", loadProjectResult(jsonData))

\* loadProject(saveProject()), the text being the latest one saved
CallLoadSaved ==
    /\ lastOp.saved # <<>>
    /\ loadProject(lastOp.saved[1].json)
    /\ lastOp' = Did("loadProject", "saved", loadProjectResult(lastOp.saved[1].json))

\* the pattern ids a caller can name: those of the project and one of no pattern
PatternIds == {project.patterns[i].id : i \in DOMAIN project.patterns} \cup {"p9"}

\* loading, editing, undoing and redoing
NextHistory ==
    \/ CallLoadProject
    \/ \E p \in PatternIds : removePattern(p) /\ lastOp' = Did("removePattern", p, TRUE)
    \/ \E type \in {"audio", "midi"} : addTrack(type) /\ lastOp' = Did("addTrack", type, TRUE)
    \/ undo /\ lastOp' = Did("undo", NoId, TRUE)
    \/ redo /\ lastOp' = Did("redo", NoId, TRUE)

SpecHistory == InitProject /\ [][NextHistory]_vars

\* loading, editing, saving and loading what was saved
NextFile ==
    \/ CallLoadProject
    \/ CallSaveProject
    \/ CallLoadSaved
    \/ \E p \in PatternIds : removePattern(p) /\ lastOp' = Did("removePattern", p, TRUE)
    \/ \E type \in {"audio", "midi"} : addTrack(type) /\ lastOp' = Did("addTrack", type, TRUE)
    \/ newProject /\ lastOp' = Did("newProject", NoId, TRUE)

SpecFile == InitProject /\ [][NextFile]_vars

----------------------------------------------------------------------------
(* removePattern *)

\* C21: a step of removePattern(p) leaves no clip of any track that references
\* p, keeps the patterns other than p as they were and in their order, and
\* keeps on every track the clips that reference another pattern or a sample,
\* as they were and in their order
C21_RemovePatternClips ==
    [][lastOp'.op = "removePattern" =>
        LET p == lastOp'.arg IN
        /\ \A t \in DOMAIN project'.tracks :
              \A c \in DOMAIN project'.tracks[t].clips :
                  project'.tracks[t].clips[c].patternId # p
        /\ project'.patterns = SelectSeq(project.patterns, LAMBDA q : q.id # p)
        /\ DOMAIN project'.tracks = DOMAIN project.tracks
        /\ \A t \in DOMAIN project.tracks :
              project'.tracks[t].clips =
                  SelectSeq(project.tracks[t].clips, LAMBDA c : c.patternId # p)]_vars

\* removePattern("p1") has run on a track with two clips of p1, a clip of p2
\* and a clip of a sample
C21_Witness ==
    /\ lastOp.op = "removePattern"
    /\ lastOp.arg = "p1"
    /\ Len(undoStack) > 0
    /\ Len(undoStack[Len(undoStack)].project.tracks[1].clips) = 4
    /\ Len(project.tracks[1].clips) = 2
    /\ project.tracks[1].clips[1].patternId = "p2"
    /\ project.tracks[1].clips[2].audioBufferId = "b1"
    /\ Len(project.patterns) = 1

----------------------------------------------------------------------------
(* undo and redo *)

\* C30: when redo has run right after undo, project, stepSequencerPatterns
\* and the undo history are what they were before that undo
C30_RedoOfUndoRestores ==
    (lastOp.op = "redo" /\ lastOp.before # <<>>) =>
        /\ project = lastOp.before[1].project
        /\ stepSequencerPatterns = lastOp.before[1].stepSequencerPatterns
        /\ undoStack = lastOp.before[1].undoStack

\* redo has run right after the undo of an edit that changed a project with
\* a track without instrument
C30_Witness ==
    /\ lastOp.op = "redo"
    /\ lastOp.before # <<>>
    /\ undoStack # <<>>
    /\ undoStack[Len(undoStack)].project # project
    /\ \E t \in DOMAIN project.tracks : project.tracks[t].instrumentId = NoId
    /\ stepSequencerPatterns # <<>>

----------------------------------------------------------------------------
(* saveProject and loadProject *)

\* C23: when loadProject has run on the text of the latest saveProject(), it
\* has returned true, and project and stepSequencerPatterns are what they were
\* when that saveProject() ran
C23_LoadOfSaveRestores ==
    (lastOp.op = "loadProject" /\ lastOp.arg = "saved") =>
        /\ lastOp.result
        /\ project = lastOp.saved[1].project
        /\ stepSequencerPatterns = lastOp.saved[1].stepSequencerPatterns

\* a text saved from a project with step patterns, a track without instrument
\* and clips without pattern has been loaded, an edit having run from the
\* saved state in between
C23_Witness ==
    /\ lastOp.op = "loadProject"
    /\ lastOp.arg = "saved"
    /\ lastOp.saved[1].stepSequencerPatterns # <<>>
    /\ \E t \in DOMAIN lastOp.saved[1].project.tracks :
          /\ lastOp.saved[1].project.tracks[t].instrumentId = NoId
          /\ "instrumentId" \notin DOMAIN lastOp.saved[1].json[1].project.tracks[t]
          /\ \E c \in DOMAIN lastOp.saved[1].project.tracks[t].clips :
                lastOp.saved[1].project.tracks[t].clips[c].patternId = NoId
    /\ undoStack # <<>>
    /\ undoStack[Len(undoStack)].project = lastOp.saved[1].project
    /\ project = lastOp.saved[1].project

----------------------------------------------------------------------------
(* SpecSession: a working session.  Projects are loaded from files and      *)
(* from texts that are no project file, started anew and from a template,   *)
(* played, edited, undone and redone.                                       *)

Templates == {DataA}

\* Ran(op) with the value the call returned
Returned(op, result) ==
    [op |-> op, from |-> Ran(op).from, held |-> Ran(op).held, result |-> result]

NextSession ==
    \/ \E jsonData \in FileTexts \cup MalformedTexts :
          loadProject(jsonData) /\ lastOp' = Returned("loadProject", loadProjectResult(jsonData))
    \/ newProject /\ lastOp' = Ran("newProject")
    \/ \E template \in Templates : loadTemplate(template) /\ lastOp' = Ran("loadTemplate")
    \/ play
    \/ pause
    \/ stop
    \/ updateTransport
    \/ \E type \in {"audio", "midi"} : addTrack(type) /\ lastOp' = Ran("addTrack")
    \/ addInstrument /\ lastOp' = Ran("addInstrument")
    \/ EditInstrument
    \/ undo /\ lastOp' = Ran("undo")
    \/ redo /\ lastOp' = Ran("redo")
    \/ loadSample(1)
    \/ \E i \in DOMAIN samples : addAudioClipFromSample(samples[i].id)

SpecSession == Init /\ [][NextSession]_vars

\* C22: a step of loadProject that returns false leaves the store's project
\* and step patterns, and the engine's instruments, track channels and
\* schedules, as they were
C22_FailedLoadChangesNothing ==
    [][(lastOp'.op = "loadProject" /\ ~lastOp'.result) =>
          /\ project' = project
          /\ stepSequencerPatterns' = stepSequencerPatterns
          /\ audioEngine'.instruments = audioEngine.instruments
          /\ audioEngine'.trackChannels = audioEngine.trackChannels
          /\ audioEngine'.playlistParts = audioEngine.playlistParts
          /\ audioEngine'.audioPlayers = audioEngine.audioPlayers
          /\ audioEngine'.automationEventIds = audioEngine.automationEventIds
          /\ audioEngine'.stepSequencerPart = audioEngine.stepSequencerPart]_vars

\* C26: the store reports playing exactly when the clock of the backend runs
C26_PlayingIffClockRuns ==
    transport.isPlaying <=> toneTransport.state = "started"

InstrumentIds(p) == {p.instruments[i].id : i \in DOMAIN p.instruments}

\* C27: a step of addInstrument, addTrack, removeInstrument, undo or redo
\* taken where the instruments registered in the engine are those of the
\* project leaves them so
C27_EngineInstrumentsOfProject ==
    [][(/\ lastOp'.op \in {"addInstrument", "addTrack", "removeInstrument", "undo", "redo"}
        /\ audioEngine.instruments = InstrumentIds(project)) =>
          audioEngine'.instruments = InstrumentIds(project')]_vars

\* C28: a step that creates a track channel creates it on a master channel
\* that is not disposed
C28_ChannelsOnLiveMaster ==
    [][audioEngine'.trackChannels \ audioEngine.trackChannels # {} =>
          audioEngine'.masterChannel = "live"]_vars

----------------------------------------------------------------------------
(* SpecRender: renderOffline next to schedulePlaylist, src/unnamed/part_002 *)

\* the events renderOffline schedules for one clip of a track
RECURSIVE OfflineClips(_, _, _, _)
OfflineClips(track, i, patterns, bpm) ==
    IF i > Len(track.clips) THEN <<>>
    ELSE LET clip == track.clips[i]
             p == FindIndex(patterns, clip.patternId)
         IN  (IF p = 0 THEN <<>>
              ELSE [k \in 1..Len(patterns[p].notes) |->
                      [instrument |-> track.instrumentId,
                       time       |-> beatsToSeconds(bpm, clip.startTime
                                                          + patterns[p].notes[k].startTime),
                       note       |-> patterns[p].notes[k].note,
                       duration   |-> beatsToSeconds(bpm, patterns[p].notes[k].duration),
                       velocity   |-> normVelocity(patterns[p].notes[k].velocity)]])
             \o OfflineClips(track, i + 1, patterns, bpm)

RECURSIVE OfflineTracks(_, _, _, _)
OfflineTracks(tracks, i, patterns, bpm) ==
    IF i > Len(tracks) THEN <<>>
    ELSE (IF tracks[i].mute \/ tracks[i].instrumentId = NoId THEN <<>>
          ELSE OfflineClips(tracks[i], 1, patterns, bpm))
         \o OfflineTracks(tracks, i + 1, patterns, bpm)

\* the calls of transport.schedule in renderOffline(tracks, patterns, bpm, duration),
\* each with the synth of the track's instrumentId
renderOffline(tracks, patterns, bpm) == OfflineTracks(tracks, 1, patterns, bpm)

\* projects of two tracks: any first track, and a second track with one clip of
\* p1 on the registered instrument i1 or on i2, which is not registered
RenderProjects ==
    {[bpm |-> b,
      tracks |-> <<t1, MkTrack("t2", m, FALSE, i, <<MkClip("c1", "p1", NoId, 0, 4, 0)>>)>>,
      patterns |-> <<MkPattern("p0", "i1", <<MkNote(0, <<"E4", 0, 1, 100>>)>>),
                     MkPattern("p1", "i1", ns)>>,
      instruments |-> <<[id |-> "i1"]>>,
      automationLanes |-> <<>>] :
        b \in Bpms,
        t1 \in TrackInputs("t1", {"i1", NoId}),
        m \in BOOLEAN,
        i \in {"i1", "i2"},
        ns \in NoteSeqInputs}

InitRender ==
    /\ project \in RenderProjects
    /\ audioEngine = CompileEngine
    /\ InitRest

\* audioEngine.renderOffline(project.tracks, project.patterns, project.bpm, duration):
\* the realtime engine is left alone
CallRenderOffline ==
    /\ lastOp' = [op |-> "renderOffline", after |-> lastOp.op,
                  events |-> renderOffline(project.tracks, project.patterns, project.bpm)]
    /\ UNCHANGED <<project, transport, view, stepSequencerPatterns, samples, audioEngine,
                   toneTransport, stepSeqView, undoStack, redoStack, nextId>>

NextRender ==
    \/ CompilePlaylist
    \/ CallRenderOffline

SpecRender == InitRender /\ [][NextRender]_vars

\* C24: when renderOffline has run after schedulePlaylist on the same tracks,
\* patterns and bpm, the note events it scheduled (instrument, time, pitch,
\* duration, velocity) are those the playlist parts hold, each as many times
C24_OfflineEventsAsPlaylist ==
    (lastOp.op = "renderOffline" /\ lastOp.after = "schedulePlaylist") =>
        LET offline == lastOp.events
            live == AllNoteEvents(audioEngine)
        IN  /\ \A i \in DOMAIN offline : Count(offline, offline[i]) = Count(live, offline[i])
            /\ \A i \in DOMAIN live : Count(live, live[i]) = Count(offline, live[i])

----------------------------------------------------------------------------
(* SpecMidi: exportMidi, src/unnamed/part_001.  A pattern track is the      *)
(* sequence of its events, each with the delta time that is written in      *)
(* front of it; times are rationals, ticks are integers.                    *)

MaxMidiNotes == 3    \* notes of an exported pattern

TicksPerBeat == 96

\* Math.round of a rational that is not negative
Round(r) == (2 * r[1] + r[2]) \div (2 * r[2])

\* noteToMidi, on the pitches of the inputs; a name that does not match gives 60
noteToMidi(note) ==
    CASE note = "C4" -> 60
      [] note = "D4" -> 62
      [] note = "E4" -> 64
      [] OTHER -> 60

\* the two events of a note
NoteMidiEvents(note) ==
    <<[time |-> Round(RMul(note.startTime, <<TicksPerBeat, 1>>)), type |-> "on",
       midiNote |-> noteToMidi(note.note), velocity |-> note.velocity],
      [time |-> Round(RMul(RAdd(note.startTime, note.duration), <<TicksPerBeat, 1>>)),
       type |-> "off", midiNote |-> noteToMidi(note.note), velocity |-> 0]>>

RECURSIVE PushMidiEvents(_, _)
PushMidiEvents(notes, i) ==
    IF i > Len(notes) THEN <<>>
    ELSE NoteMidiEvents(notes[i]) \o PushMidiEvents(notes, i + 1)

\* as MidiCompare, by time alone
MidiCompareTimeOnly(a, b) == a.time - b.time

\* the comparator of midiEvents.sort: negative when a goes first
MidiCompare(a, b) ==
    IF a.time # b.time THEN a.time - b.time
    ELSE IF a.type # b.type THEN (IF a.type = "off" THEN 0 - 1 ELSE 1)
    ELSE 0

\* Array.prototype.sort is stable: an event goes behind the events it does not
\* precede
RECURSIVE InsertMidiEvent(_, _)
InsertMidiEvent(sorted, event) ==
    IF sorted = <<>> THEN <<event>>
    ELSE IF MidiCompare(event, sorted[Len(sorted)]) < 0
         THEN Append(InsertMidiEvent(SubSeq(sorted, 1, Len(sorted) - 1), event),
                     sorted[Len(sorted)])
         ELSE Append(sorted, event)

RECURSIVE SortMidiEvents(_, _)
SortMidiEvents(events, i) ==
    IF i = 0 THEN <<>>
    ELSE InsertMidiEvent(SortMidiEvents(events, i - 1), events[i])

\* the events of the track with their delta times, lastTime starting at 0
createMidiTrack(pattern) ==
    LET pushed == PushMidiEvents(pattern.notes, 1)
        midiEvents == SortMidiEvents(pushed, Len(pushed))
    IN  [i \in DOMAIN midiEvents |->
            [delta    |-> midiEvents[i].time - (IF i = 1 THEN 0 ELSE midiEvents[i - 1].time),
             status   |-> midiEvents[i].type,
             midiNote |-> midiEvents[i].midiNote,
             velocity |-> midiEvents[i].velocity]]

\* notes at beat 0, 1/192 (half a tick) and 1, half a tick and a beat long
MidiNoteValues ==
    {<<"C4", s, d, 100>> : s \in {<<0, 1>>, <<1, 192>>, <<1, 1>>},
                           d \in {<<1, 192>>, <<1, 1>>}}
    \cup {<<"D4", <<1, 1>>, <<1, 1>>, 64>>}

MidiPatterns ==
    UNION {{MkPattern("p1", "i1", [i \in 1..n |-> MkNote(i, f[i])]) :
                f \in [1..n -> MidiNoteValues]} : n \in 0..MaxMidiNotes}

InitMidi ==
    /\ project \in {[createDefaultProject EXCEPT !.patterns = <<p>>] : p \in MidiPatterns}
    /\ audioEngine = NewAudioEngine
    /\ InitRest

\* exportMidi(project.patterns, project.bpm): the pattern tracks
CallExportMidi ==
    /\ lastOp' = [op |-> "exportMidi",
                  tracks |-> [p \in DOMAIN project.patterns |->
                                 createMidiTrack(project.patterns[p])]]
    /\ UNCHANGED <<project, transport, view, stepSequencerPatterns, samples, audioEngine,
                   toneTransport, stepSeqView, undoStack, redoStack, nextId>>

NextMidi == CallExportMidi

SpecMidi == InitMidi /\ [][NextMidi]_vars

\* the tick of event i of a written track: the sum of the delta times up to it
RECURSIVE TickOf(_, _)
TickOf(track, i) == IF i = 0 THEN 0 ELSE TickOf(track, i - 1) + track[i].delta

\* C25: in every pattern track exportMidi writes, every delta time is at
\* least 0, so the ticks never decrease, and of two events at one tick a
\* note-on never comes before a note-off
C25_MidiEventsOrdered ==
    lastOp.op = "exportMidi" =>
        \A p \in DOMAIN lastOp.tracks :
            LET track == lastOp.tracks[p] IN
            /\ \A i \in DOMAIN track : track[i].delta >= 0
            /\ \A i, j \in DOMAIN track :
                  (i < j /\ TickOf(track, i) = TickOf(track, j)) =>
                      ~(track[i].status = "on" /\ track[j].status = "off")

\* a track has been written for a pattern whose first note starts at beat 1,
\* where its second note, listed after it, ends
C25_Witness ==
    /\ lastOp.op = "exportMidi"
    /\ Len(project.patterns[1].notes) >= 2
    /\ project.patterns[1].notes[1].startTime = <<1, 1>>
    /\ project.patterns[1].notes[2].startTime = <<0, 1>>
    /\ project.patterns[1].notes[2].duration = <<1, 1>>
    /\ Len(lastOp.tracks[1]) = 2 * Len(project.patterns[1].notes)
    /\ \E i \in DOMAIN lastOp.tracks[1] :
          /\ i > 1
          /\ lastOp.tracks[1][i].status = "on"
          /\ lastOp.tracks[1][i].delta = 0
          /\ lastOp.tracks[1][i - 1].status = "off"
          /\ TickOf(lastOp.tracks[1], i) = TicksPerBeat

=============================================================================
